---- MODULE Spec2Model ----
(***************************************************************************)
(* A model of DataChecker.validate_data_against_schema                     *)
(* (src/validator/data_checker.py): one invocation on a dataset and a      *)
(* schema, stepped at the granularity of the statements that write the     *)
(* report.                                                                 *)
(*                                                                         *)
(* Values are tagged: a DataFrame cell is NaN, a numpy integer or a        *)
(* string; a JSON value is null, an int, a string or a list.  A name is a  *)
(* string; the names "7" and "[]" stand for the YAML values 7 (an integer) *)
(* and [] (a list) written where a field name is expected.                 *)
(*                                                                         *)
(* A second machine applies DataChecker._to_json_serializable to an        *)
(* argument, and then to its own result.                                   *)
(***************************************************************************)
EXTENDS Integers, Sequences, FiniteSets, TLC

VARIABLES
    data_df,                    \* the caller's DataFrame
    schema,                     \* the caller's schema
    pc,                         \* position in validate_data_against_schema
    i,                          \* index of the next record of the validation loop
    validation_report,          \* the report under construction
    required_fields_in_schema,  \* locals of the coverage checker
    present_required_fields,
    enum_values_in_schema,
    enum_values_in_data,
    min_max_constraints,
    min_max_data_values,
    missing_required_fields,
    todo,                       \* fields left in the running consolidation loop
    raised,                     \* the exception that left the call, or "none"
    obj,                        \* the argument of _to_json_serializable
    results,                    \* what its successive applications returned
    hash_order,                 \* the order in which this process enumerates a set of names
    earlier,                    \* the invocations that came before the running one
    model_instance,             \* the argument of _call_gemini_with_retry
    retry_count,                \* its local counter
    rpc,                        \* position in _call_gemini_with_retry
    attempts,                   \* what each call of generate_content did, in order
    sleeps,                     \* the calls of time.sleep, in order
    outcome,                    \* how _call_gemini_with_retry ended
    entry_point,                \* the AI function that was called
    text_gen_model,             \* the module global of the AI modules
    args,                       \* the arguments of the AI function
    epc,                        \* position in the AI function
    result,                     \* what the AI function returned, or the exception that left it
    session_state,              \* st.session_state of the app
    rendered                    \* what the last run of the app script showed and called

vars == <<data_df, schema, pc, i, validation_report, required_fields_in_schema,
          present_required_fields, enum_values_in_schema, enum_values_in_data,
          min_max_constraints, min_max_data_values, missing_required_fields,
          todo, raised, obj, results, hash_order, earlier, model_instance,
          retry_count, rpc, attempts, sleeps, outcome, entry_point, text_gen_model, args,
          epc, result, session_state, rendered>>

\* the state of the normalizer on its own
normalizer == <<obj, results>>

\* what outlives one invocation: the process and the record of earlier calls
process == <<hash_order, earlier>>

\* the state of one call of _call_gemini_with_retry
retry == <<model_instance, retry_count, rpc, attempts, sleeps, outcome>>

\* the state of the AI modules: an entry point and the helper it calls
gemini == <<retry, entry_point, text_gen_model, args, epc, result>>

\* the state of the app
app == <<session_state, rendered>>

\* validation_report = None: a report of no schema and no data
NoReport == [of |-> "None", contract_schema |-> "{}", synthetic_data_df |-> "empty"]

\* lines 43-57 of app.py: the session state of a new session
NewSession(key_loaded) ==
    [contract_file |-> "None",
     synthetic_data_file |-> "None",
     contract_schema |-> "{}",
     synthetic_data_df |-> "empty",
     validation_report |-> NoReport,
     ai_suggestions_test_cases |-> <<>>,
     ai_suggestions_schema |-> <<>>,
     ai_generated_test_cases_df |-> "empty",
     ai_patched_schema |-> "{}",
     gemini_api_key_loaded |-> key_loaded,
     enable_ai_test_case_generation |-> TRUE,
     ai_test_case_generation_error |-> "None"]

\* the app is not running
NoApp ==
    /\ session_state = NewSession(FALSE)
    /\ rendered = [generate_test_cases_button |-> FALSE,
                   reverse_engineer_schema_button |-> FALSE,
                   generate_markdown_report |-> "not called",
                   reset_app_button |-> FALSE]

\* no AI function is running
NoAICall ==
    /\ model_instance = "None"
    /\ retry_count = 0
    /\ rpc = "idle"
    /\ attempts = <<>>
    /\ sleeps = <<>>
    /\ outcome = [kind |-> "none", type |-> "none", text |-> "", attempt |-> 0]
    /\ entry_point = "none"
    /\ text_gen_model = "None"
    /\ args = [schema |-> "None", validation_report |-> "None"]
    /\ epc = "idle"
    /\ result = [kind |-> "none", items |-> <<>>, error |-> "None"]

\* ------------------------------------------------------------------ bounds

MaxRows == 2

MaxRequired == 2

MaxBoundaryRows == 3

MaxLen == 2

MaxCalls == 2

\* ------------------------------------------------------------------ values

V(t, n, s) == [t |-> t, n |-> n, s |-> s]

\* DataFrame cells as to_dict hands them over (NaN: a missing value), and the
\* numpy scalars a reduction such as Series.min() returns
NaN == V("nan", 0, "")
NpNaN == V("np_nan", 0, "")
NpInt(n) == V("np_int", n, "")
PyStr(s) == V("str", 0, s)

\* JSON values (None, int, str, list, dict) and the floats inf and -inf
JNull == V("null", 0, "")
JInt(n) == V("int", n, "")
JStr(s) == V("str", 0, s)
JList == V("list", 0, "")
JDict == V("dict", 0, "")
PosInf == V("inf", 1, "")
NegInf == V("inf", -1, "")

\* further scalars _to_json_serializable may be handed: Python floats and
\* bools, numpy floats and bools, a pd.Timestamp (s: its str()), pd.NaT, and an
\* object of a type json.dumps does not know (s: its str())
JFloat(n) == V("float", n, "")
JBool(n) == V("bool", n, "")
NpFloat(n) == V("np_float", n, "")
NpBool(n) == V("np_bool", n, "")
Timestamp(s) == V("timestamp", 0, s)
NaT == V("nat", 0, "")
Object(s) == V("object", 0, s)

\* composite arguments: a list, a dict, a tuple, a pd.Series, a numpy array
\* and a DataFrame
PyList(items) == [t |-> "pylist", items |-> items]
PyDict(fields) == [t |-> "pydict", fields |-> fields]
Tuple(items) == [t |-> "tuple", items |-> items]
Series(items) == [t |-> "series", items |-> items]
NdArray(items) == [t |-> "ndarray", items |-> items]
DataFrame(df) == [t |-> "dataframe", df |-> df]

\* in place of a result: the call raised ValueError
Raised == V("raised", 0, "ValueError")

IsNumber(v) == v.t = "int"
Hashable(v) == v.t # "list"

EmptyMap == [x \in {} |-> x]

Range(s) == {s[k] : k \in DOMAIN s}

\* Python's str.join needs every element to be a str
IsStrName(name) == name \notin {"7", "[]"}
HashableName(name) == name # "[]"

\* ----------------------------------------------------------- normalization

\* the scalar handed back as it came
ToJsonScalarIdentity(v) == v

\* _to_json_serializable on a scalar: np.integer -> int, np.floating -> float
\* (a NaN stays a NaN), a missing value -> None,
\* anything json.dumps accepts is returned as it is
ToJsonScalar(v) ==
    CASE v.t = "np_int" -> JInt(v.n)
      [] v.t = "np_nan" -> NaN
      [] v.t = "np_float" -> JFloat(v.n)
      [] v.t = "np_bool" -> JBool(v.n)
      [] v.t = "timestamp" -> JStr(v.s)
      [] v.t = "nan" -> JNull
      [] v.t = "nat" -> JNull
      [] v.t = "object" -> JStr(v.s)
      [] OTHER -> v

\* _to_json_serializable on a list: element-wise
ToJsonList(s) == [k \in DOMAIN s |-> ToJsonScalar(s[k])]

\* _to_json_serializable on a dict: value-wise, keys kept
ToJsonDict(d) == [k \in DOMAIN d |-> ToJsonScalar(d[k])]

\* _convert_dataframe_to_json_serializable: to_dict(orient='records'), then each
\* record normalized
ConvertDataframe(df) == [k \in DOMAIN df.rows |-> ToJsonDict(df.rows[k])]

\* Series.tolist(): numpy scalars become Python scalars
ToList(v) ==
    CASE v.t = "np_int" -> JInt(v.n)
      [] v.t = "np_float" -> JFloat(v.n)
      [] v.t = "np_nan" -> NaN
      [] v.t = "np_bool" -> JBool(v.n)
      [] OTHER -> v

\* json.dumps accepts the value: None, bool, int, float (NaN and inf included)
\* and str
JsonDumps(v) == v.t \in {"null", "bool", "int", "float", "nan", "inf", "str"}

\* str(obj) of a composite
StrRepr(x) == JStr("str(" \o x.t \o ")")

RECURSIVE ToJsonSerializable(_)
\* _to_json_serializable (lines 13-44), branch by branch.  pd.isna of a numpy
\* array is an array, whose truth value raises ValueError unless it has one
\* element; pd.isna of a tuple is False.
ToJsonSerializable(x) ==
    CASE x.t = "pydict" ->
            LET vals == [k \in DOMAIN x.fields |-> ToJsonSerializable(x.fields[k])]
            IN  IF \E k \in DOMAIN vals : vals[k] = Raised THEN Raised ELSE PyDict(vals)
      [] x.t = "pylist" ->
            LET vals == [k \in DOMAIN x.items |-> ToJsonSerializable(x.items[k])]
            IN  IF \E k \in DOMAIN vals : vals[k] = Raised THEN Raised ELSE PyList(vals)
      [] x.t = "series" ->
            PyList([k \in DOMAIN x.items |-> ToJsonSerializable(ToList(x.items[k]))])
      [] x.t = "dataframe" ->
            LET records == ConvertDataframe(x.df)
            IN  PyList([k \in DOMAIN records |-> PyDict(records[k])])
      [] x.t = "ndarray" ->
            IF Len(x.items) > 1 THEN Raised
            ELSE IF x.items[1].t = "np_nan" THEN JNull
            ELSE StrRepr(x)
      [] x.t = "tuple" ->
            IF \A k \in DOMAIN x.items : JsonDumps(x.items[k]) THEN x ELSE StrRepr(x)
      [] OTHER -> ToJsonScalar(x)

\* DataFrame.empty: some axis has length 0
Empty(df) == Len(df.rows) = 0 \/ df.cols = {}

\* the non-null cells of a column (Series.dropna)
DropNa(df, col) == {df.rows[k][col] : k \in DOMAIN df.rows} \ {NaN}

\* Series.isnull().all()
AllNull(df, col) == DropNa(df, col) = {}

\* every column taken for numeric
IsNumericDtypeAlways(df, col) == TRUE

\* pd.api.types.is_numeric_dtype: a column holding a string has dtype object
IsNumericDtype(df, col) == \A k \in DOMAIN df.rows : df.rows[k][col].t # "str"

\* ------------------------------------------------------------------ inputs

\* One property of the schema.  obj = FALSE is a property whose details are the
\* integer 5 instead of an object; an absent keyword is has_* = FALSE; pattern
\* is "none" (absent) or a string that is no regular expression.
Details(type, has_enum, enum, has_min, minimum, has_max, maximum, pattern) ==
    [obj |-> TRUE, type |-> type, has_enum |-> has_enum, enum |-> enum,
     has_min |-> has_min, minimum |-> minimum, has_max |-> has_max,
     maximum |-> maximum, pattern |-> pattern]

PlainInteger == Details("integer", FALSE, <<>>, FALSE, JNull, FALSE, JNull, "none")
WithEnum == Details("integer", TRUE, <<JInt(1), JInt(2)>>, FALSE, JNull, FALSE, JNull, "none")
WithMinMax == Details("integer", FALSE, <<>>, TRUE, JInt(1), TRUE, JInt(2), "none")
UnhashableEnum == Details("any", TRUE, <<JInt(1), JList>>, FALSE, JNull, FALSE, JNull, "none")
StringMinimum == Details("integer", FALSE, <<>>, TRUE, JStr("lo"), TRUE, JInt(2), "none")
BadPattern == Details("integer", FALSE, <<>>, FALSE, JNull, FALSE, JNull, "(")
NotAnObject == [PlainInteger EXCEPT !.obj = FALSE]

DetailsOf(name) ==
    IF name = "a"
    THEN {PlainInteger, WithEnum, WithMinMax, NotAnObject, UnhashableEnum, StringMinimum,
          BadPattern}
    ELSE {WithEnum}

\* the order in which the schema's properties mapping lists its keys
PropertyOrder == <<"a", "b">>

ColumnNames == {"a", "b"}

RequiredNames == {"a", "c"}

SeqsUpTo(S, n) == UNION {[1..m -> S] : m \in 0..n}

\* the orders in which a process may enumerate the names of a set: any order
\* of the names that occur together
HashOrders == {o \o <<"7", "[]">> : o \in {s \in [1..Cardinality(RequiredNames) -> RequiredNames] :
                                               \A n \in RequiredNames : \E k \in DOMAIN s : s[k] = n}}

RequiredLists == SeqsUpTo(RequiredNames, MaxRequired) \cup {<<"7">>, <<"[]">>}

PropertyMaps ==
    UNION {[D -> UNION {DetailsOf(f) : f \in D}] : D \in SUBSET ColumnNames}

Schemas ==
    {[kind |-> "none", required |-> <<>>, has_props |-> FALSE, props |-> EmptyMap],
     [kind |-> "empty", required |-> <<>>, has_props |-> FALSE, props |-> EmptyMap]}
    \cup {[kind |-> "object", required |-> r, has_props |-> TRUE, props |-> p] :
            r \in RequiredLists,
            p \in {q \in PropertyMaps : \A f \in DOMAIN q : q[f] \in DetailsOf(f)}}
    \cup {[kind |-> "object", required |-> r, has_props |-> FALSE, props |-> EmptyMap] :
            r \in RequiredLists}

CellsOf(col) ==
    IF col = "a" THEN {NaN, NpInt(1), NpInt(2), PyStr("x")} ELSE {NpInt(1)}

RowsOver(cols) == {r \in [cols -> UNION {CellsOf(c) : c \in cols}] :
                     \A c \in cols : r[c] \in CellsOf(c)}

DataFrames ==
    {[cols |-> cols, rows |-> rows] :
        cols \in {{}, {"a"}, {"a", "b"}}, rows \in {<<>>}} \cup
    UNION {{[cols |-> cols, rows |-> rows] : rows \in SeqsUpTo(RowsOver(cols), MaxRows)} :
            cols \in {{}, {"a"}, {"a", "b"}}}

\* A second palette, for the boundary rule: one column "a" of integers around
\* the bounds 0 and 100 (or holding a string), under a property that declares
\* both bounds, one of them, or a minimum above its maximum; or under an enum,
\* with the bound on "b", a column the data does not have.
Bounds0To100 == Details("integer", FALSE, <<>>, TRUE, JInt(0), TRUE, JInt(100), "none")
MinimumOnly == Details("integer", FALSE, <<>>, TRUE, JInt(0), FALSE, JNull, "none")
MaximumOnly == Details("integer", FALSE, <<>>, FALSE, JNull, TRUE, JInt(100), "none")
InvertedBounds == Details("integer", FALSE, <<>>, TRUE, JInt(100), TRUE, JInt(0), "none")

BoundaryDetails == {Bounds0To100, MinimumOnly, MaximumOnly, InvertedBounds}

BoundarySchemas ==
    {[kind |-> "none", required |-> <<>>, has_props |-> FALSE, props |-> EmptyMap]}
    \cup {[kind |-> "object", required |-> <<>>, has_props |-> TRUE, props |-> [f \in {"a"} |-> d]] :
            d \in BoundaryDetails}
    \cup {[kind |-> "object", required |-> <<>>, has_props |-> TRUE,
           props |-> [f \in {"a", "b"} |-> IF f = "a" THEN WithEnum ELSE MinimumOnly]]}

BoundaryCells ==
    {NaN, NpInt(0), NpInt(1), NpInt(10), NpInt(50), NpInt(90), NpInt(100), NpInt(101),
     PyStr("x")}

BoundaryDataFrames ==
    {[cols |-> {"a"}, rows |-> rows] :
        rows \in SeqsUpTo([{"a"} -> BoundaryCells], MaxBoundaryRows)}

\* A palette for successive invocations: few inputs, so that a later call may
\* get the inputs of an earlier one after a call on other inputs.
CallSchemas ==
    {[kind |-> "none", required |-> <<>>, has_props |-> FALSE, props |-> EmptyMap],
     [kind |-> "object", required |-> <<"a", "c">>, has_props |-> FALSE, props |-> EmptyMap],
     [kind |-> "object", required |-> <<>>, has_props |-> TRUE, props |-> [f \in {"a"} |-> WithEnum]],
     [kind |-> "object", required |-> <<"c", "a">>, has_props |-> TRUE,
      props |-> [f \in {"a"} |-> WithMinMax]]}

CallDataFrames ==
    {[cols |-> {"a"}, rows |-> rows] :
        rows \in {<<>>, <<[f \in {"a"} |-> NaN]>>, <<[f \in {"a"} |-> NpInt(1)]>>,
                  <<[f \in {"a"} |-> NaN], [f \in {"a"} |-> NpInt(2)]>>}}

\* A third palette, for _to_json_serializable on its own: every kind of scalar,
\* the composites over them, and a list and a dict holding one composite.
Scalars ==
    {JNull, JBool(1), JInt(1), JFloat(1), JStr("x"), NaN, NpInt(1), NpFloat(1), NpNaN,
     NpBool(1), Timestamp("2024-01-01 00:00:00"), NaT, Object("<object>")}

Composites ==
    {PyList(s) : s \in SeqsUpTo(Scalars, MaxLen)}
    \cup {PyDict([k \in {"k"} |-> v]) : v \in Scalars}
    \cup {Tuple(s) : s \in SeqsUpTo({JInt(1), NpInt(1)}, MaxLen)}
    \cup {Series(s) : s \in SeqsUpTo({NpInt(1), NpFloat(1), NpNaN}, MaxLen)}
    \cup {NdArray(s) : s \in SeqsUpTo({NpInt(1), NpNaN}, MaxLen) \ {<<>>}}
    \cup {DataFrame(df) : df \in DataFrames}

Objects ==
    Scalars \cup Composites
    \cup {PyList(<<c>>) : c \in Composites}
    \cup {PyDict([k \in {"k"} |-> c]) : c \in Composites}

\* ------------------------------------------------- jsonschema.validate (library)

\* the properties of the schema in the order the mapping lists them
PropertiesInOrder(sch) == SelectSeq(PropertyOrder, LAMBDA f : f \in DOMAIN sch.props)

\* validate() checks the schema against its meta-schema first and raises
\* SchemaError: required must be a list of unique strings, a property must be
\* a schema, minimum and maximum must be numbers
SchemaIsInvalid(sch) ==
    \/ \E k \in DOMAIN sch.required : ~IsStrName(sch.required[k])
    \/ \E j, k \in DOMAIN sch.required : j # k /\ sch.required[j] = sch.required[k]
    \/ \E f \in DOMAIN sch.props :
        \/ ~sch.props[f].obj
        \/ sch.props[f].has_min /\ ~IsNumber(sch.props[f].minimum)
        \/ sch.props[f].has_max /\ ~IsNumber(sch.props[f].maximum)

\* the keyword of property f that the value v breaks, "none" if it breaks none
BrokenKeyword(d, v) ==
    CASE d.type = "integer" /\ v.t # "int" -> "type"
      [] d.has_enum /\ v \notin Range(d.enum) -> "enum"
      [] d.has_min /\ IsNumber(v) /\ v.n < d.minimum.n -> "minimum"
      [] d.has_max /\ IsNumber(v) /\ v.n > d.maximum.n -> "maximum"
      [] OTHER -> "none"

KeywordValue(d, kw) ==
    CASE kw = "type" -> JStr(d.type)
      [] kw = "enum" -> JList
      [] kw = "minimum" -> d.minimum
      [] kw = "maximum" -> d.maximum
      [] OTHER -> JNull

\* the first element of the sequence s that satisfies P, given that one does
FirstIndex(s, P(_)) == CHOOSE k \in DOMAIN s : P(s[k]) /\ \A j \in 1..(k - 1) : ~P(s[j])

NoError == [outcome |-> "ok", validator |-> "none", path |-> <<>>,
            validator_value |-> JNull, instance |-> JNull, message |-> <<>>]

\* re.search(pattern, instance) raises re.error when the pattern keyword of a
\* property is applied to a string value and is no regular expression
PatternRaises(rec, sch) ==
    \E f \in DOMAIN sch.props :
        f \in DOMAIN rec /\ sch.props[f].pattern # "none" /\ rec[f].t = "str"

\* validate(instance=record, schema=schema): returns, raises the best match of
\* the record's violations (an error at the root before one inside a property,
\* the first of equals), or raises SchemaError or re.error
Validate(rec, sch) ==
    LET order == PropertiesInOrder(sch)
        lacks(name) == name \notin DOMAIN rec
        breaks(f) == f \in DOMAIN rec /\ BrokenKeyword(sch.props[f], rec[f]) # "none"
    IN  IF SchemaIsInvalid(sch)
        THEN [NoError EXCEPT !.outcome = "Exception", !.message = <<"SchemaError">>]
        ELSE IF PatternRaises(rec, sch)
        THEN [NoError EXCEPT !.outcome = "Exception", !.message = <<"re.error">>]
        ELSE IF \E k \in DOMAIN sch.required : lacks(sch.required[k])
        THEN LET name == sch.required[FirstIndex(sch.required, lacks)]
             IN  [outcome |-> "ValidationError", validator |-> "required",
                  path |-> <<>>, validator_value |-> JList, instance |-> JDict,
                  message |-> <<name, " is a required property">>]
        ELSE IF \E k \in DOMAIN order : breaks(order[k])
        THEN LET f == order[FirstIndex(order, breaks)]
                 kw == BrokenKeyword(sch.props[f], rec[f])
             IN  [outcome |-> "ValidationError", validator |-> kw,
                  path |-> <<f>>, validator_value |-> KeywordValue(sch.props[f], kw),
                  instance |-> rec[f], message |-> <<f, " breaks ", kw>>]
        ELSE NoError

\* ------------------------------------------------------------------ report

InitReport ==
    [overall_status |-> "PASS", errors |-> <<>>, warnings |-> <<>>,
     coverage |-> [required_fields_coverage |-> [total |-> 0, covered |-> 0, missing |-> <<>>],
                   enum_coverage |-> EmptyMap,
                   min_max_coverage |-> EmptyMap]]

\* the dict appended for a ValidationError, after _to_json_serializable
ValidationErrorEntry(row, e) ==
    [row_index |-> row, path |-> <<"deque">> \o e.path, message |-> e.message,
     validator |-> e.validator, validator_value |-> ToJsonScalar(e.validator_value),
     instance |-> ToJsonScalar(e.instance)]

\* the dict appended for any other exception, after _to_json_serializable
ExceptionEntry(row, e) ==
    [row_index |-> row, path |-> <<"N/A">>,
     message |-> <<"Unexpected error during validation: ">> \o e.message,
     detail |-> e.message]

\* the validation loop with an except clause that records nothing
CheckerStepSwallowsException(rep, k) ==
    LET e == Validate(ConvertDataframe(data_df)[k], schema)
    IN  CASE e.outcome = "ValidationError" ->
                [rep EXCEPT !.overall_status = "FAIL",
                            !.errors = Append(@, ValidationErrorEntry(k - 1, e))]
          [] e.outcome = "Exception" -> [rep EXCEPT !.overall_status = "FAIL"]
          [] OTHER -> rep

\* one iteration of the validation loop on record k (1-based; row_index is k - 1)
CheckerStep(rep, k) ==
    LET e == Validate(ConvertDataframe(data_df)[k], schema)
    IN  CASE e.outcome = "ValidationError" ->
                [rep EXCEPT !.overall_status = "FAIL",
                            !.errors = Append(@, ValidationErrorEntry(k - 1, e))]
          [] e.outcome = "Exception" ->
                [rep EXCEPT !.overall_status = "FAIL",
                            !.errors = Append(@, ExceptionEntry(k - 1, e))]
          [] OTHER -> rep

\* ------------------------------------------------ coverage: what is collected

EnumFields(sch) == SelectSeq(PropertiesInOrder(sch), LAMBDA f : sch.props[f].has_enum)

MinMaxFields(sch) ==
    SelectSeq(PropertiesInOrder(sch), LAMBDA f : sch.props[f].has_min \/ sch.props[f].has_max)

\* set(schema.get('required', [])) raises on an unhashable element; 'enum' in
\* prop_details raises when prop_details is an integer; set(enum) raises on an
\* unhashable member
CollectRaises(sch) ==
    \/ \E k \in DOMAIN sch.required : ~HashableName(sch.required[k])
    \/ \E f \in DOMAIN sch.props :
        \/ ~sch.props[f].obj
        \/ sch.props[f].has_enum /\ \E k \in DOMAIN sch.props[f].enum : ~Hashable(sch.props[f].enum[k])

\* x < y on Python numbers: every comparison with a NaN is False
NumLess(x, y) ==
    CASE x.t = "nan" \/ y.t = "nan" -> FALSE
      [] x.t = "inf" /\ y.t = "inf" -> x.n < y.n
      [] x.t = "inf" -> x.n < 0
      [] y.t = "inf" -> y.n > 0
      [] OTHER -> x.n < y.n

\* Python's min(a, b) and max(a, b): b only if it is strictly beyond a
PyMin(a, b) == IF NumLess(b, a) THEN b ELSE a
PyMax(a, b) == IF NumLess(a, b) THEN b ELSE a

SetMin(S) == CHOOSE x \in S : \A y \in S : x <= y
SetMax(S) == CHOOSE x \in S : \A y \in S : x >= y

\* Series.min() and Series.max() of a numeric column skip the missing values
\* and return NaN when nothing is left
ColumnMin(df, col) ==
    IF DropNa(df, col) = {} THEN NpNaN ELSE NpInt(SetMin({v.n : v \in DropNa(df, col)}))
ColumnMax(df, col) ==
    IF DropNa(df, col) = {} THEN NpNaN ELSE NpInt(SetMax({v.n : v \in DropNa(df, col)}))

RequiredFieldsInSchema(sch) == Range(sch.required)

\* present_required_fields without the isnull().all() test
PresentRequiredFieldsAnyColumn(df, sch) ==
    {col \in df.cols : col \in RequiredFieldsInSchema(sch)}

PresentRequiredFields(df, sch) ==
    {col \in df.cols : col \in RequiredFieldsInSchema(sch) /\ ~AllNull(df, col)}

EnumValuesInSchema(sch) ==
    [f \in Range(EnumFields(sch)) |-> Range(ToJsonList(sch.props[f].enum))]

EnumValuesInData(df, sch) ==
    [f \in Range(EnumFields(sch)) |->
        IF f \in df.cols THEN {ToJsonScalar(v) : v \in DropNa(df, f)} ELSE {}]

MinMaxConstraints(sch) ==
    [f \in Range(MinMaxFields(sch)) |->
        [minimum |-> IF sch.props[f].has_min THEN ToJsonScalar(sch.props[f].minimum) ELSE JNull,
         maximum |-> IF sch.props[f].has_max THEN ToJsonScalar(sch.props[f].maximum) ELSE JNull]]

MinMaxDataValues(df, sch) ==
    [f \in Range(MinMaxFields(sch)) |->
        IF f \in df.cols /\ IsNumericDtype(df, f)
        THEN [min_data |-> PyMin(PosInf, ToJsonScalar(ColumnMin(df, f))),
              max_data |-> PyMax(NegInf, ToJsonScalar(ColumnMax(df, f)))]
        ELSE [min_data |-> PosInf, max_data |-> NegInf]]

\* ----------------------------------------------- coverage: the consolidation

RECURSIVE Join(_, _)
\* sep.join(s) as the sequence of its pieces
Join(sep, s) ==
    IF Len(s) = 0 THEN <<>>
    ELSE IF Len(s) = 1 THEN s
    ELSE <<Head(s), sep>> \o Join(sep, Tail(s))

\* str(v) of a JSON value
StrOf(v) == IF v.t = "int" THEN ToString(v.n) ELSE IF v.t = "null" THEN "None" ELSE v.s

\* every order in which list(a_set) may enumerate a set of strings
Orderings(S) == {s \in [1..Cardinality(S) -> S] : Range(s) = S}

RECURSIVE AscendingList(_)
\* list(a_set) of a set of small integers: CPython enumerates them by value
AscendingList(S) ==
    IF S = {} THEN <<>>
    ELSE LET x == CHOOSE x \in S : \A y \in S : x.n <= y.n
         IN  <<x>> \o AscendingList(S \ {x})

\* the required consolidation with its warning appended whether or not a field
\* is missing
RequiredStepAlwaysWarns(rep, missing) ==
    [rep EXCEPT !.coverage.required_fields_coverage =
                    [total |-> Cardinality(required_fields_in_schema),
                     covered |-> Cardinality(present_required_fields),
                     missing |-> missing],
                !.overall_status = "WARNINGS",
                !.warnings = Append(@,
                    [field |-> "N/A",
                     message |-> <<"Missing or entirely null required fields: ">>
                                 \o Join(", ", missing) \o <<".">>])]

\* the required consolidation with one warning for each missing field
RequiredStepPerField(rep, missing) ==
    [rep EXCEPT !.coverage.required_fields_coverage =
                    [total |-> Cardinality(required_fields_in_schema),
                     covered |-> Cardinality(present_required_fields),
                     missing |-> missing],
                !.overall_status = IF missing # <<>> THEN "WARNINGS" ELSE @,
                !.warnings = @ \o [k \in DOMAIN missing |->
                                 [field |-> "N/A",
                                  message |-> <<"Missing or entirely null required fields: ",
                                                missing[k], ".">>]]]

\* lines 157-169, given the enumeration of the missing set
RequiredStep(rep, missing) ==
    LET cov == [total |-> Cardinality(required_fields_in_schema),
                covered |-> Cardinality(present_required_fields),
                missing |-> missing]
        rep1 == [rep EXCEPT !.coverage.required_fields_coverage = cov]
    IN  IF missing # <<>>
        THEN [rep1 EXCEPT !.overall_status = "WARNINGS",
                          !.warnings = Append(@,
                              [field |-> "N/A",
                               message |-> <<"Missing or entirely null required fields: ">>
                                           \o Join(", ", missing) \o <<".">>])]
        ELSE rep1

\* ', '.join(missing_required_fields) raises on a name that is not a str
RequiredRaises(missing) == \E k \in DOMAIN missing : ~IsStrName(missing[k])

\* the enum consolidation of one field with its warning appended whether or
\* not a declared value is missing
EnumStepAlwaysWarns(rep, field) ==
    LET schema_enums == enum_values_in_schema[field]
        data_enums == enum_values_in_data[field]
        missing_enum_values == AscendingList(schema_enums \ data_enums)
    IN  [rep EXCEPT !.coverage.enum_coverage =
                        (field :> [total |-> Cardinality(schema_enums),
                                   covered |-> Cardinality(data_enums),
                                   missing |-> missing_enum_values]) @@ @,
                    !.overall_status = "WARNINGS",
                    !.warnings = Append(@,
                        [field |-> field,
                         message |-> <<"Enum values in schema not present in data for ", field, ": ">>
                                     \o Join(", ", [k \in DOMAIN missing_enum_values |->
                                                      StrOf(missing_enum_values[k])])
                                     \o <<".">>])]

\* lines 171-185 for one field
EnumStep(rep, field) ==
    LET schema_enums == enum_values_in_schema[field]
        data_enums == enum_values_in_data[field]
        missing_enum_values == AscendingList(schema_enums \ data_enums)
        cov == [total |-> Cardinality(schema_enums),
                covered |-> Cardinality(data_enums),
                missing |-> missing_enum_values]
        rep1 == [rep EXCEPT !.coverage.enum_coverage = (field :> cov) @@ @]
    IN  IF missing_enum_values # <<>>
        THEN [rep1 EXCEPT !.overall_status = "WARNINGS",
                          !.warnings = Append(@,
                              [field |-> field,
                               message |-> <<"Enum values in schema not present in data for ", field, ": ">>
                                           \o Join(", ", [k \in DOMAIN missing_enum_values |->
                                                            StrOf(missing_enum_values[k])])
                                           \o <<".">>])]
        ELSE rep1

\* whether the field's column gave a smallest and a largest value (line 190)
HasDataValues(field) ==
    /\ min_max_data_values[field].min_data # PosInf
    /\ min_max_data_values[field].max_data # NegInf

\* the tolerance as the fixed 0.01 whatever the bounds
Tolerance100Fixed(min_constraint_val, max_constraint_val) == 1

\* 100 * tolerance (line 196): 0.01 * (maximum - minimum) with both bounds, else 0.01
Tolerance100(min_constraint_val, max_constraint_val) ==
    IF min_constraint_val # JNull /\ max_constraint_val # JNull
    THEN max_constraint_val.n - min_constraint_val.n
    ELSE 1

\* bound - tolerance <= value <= bound + tolerance, scaled by 100
WithinTolerance(data_val, constraint_val, tol100) ==
    /\ 100 * data_val.n <= 100 * constraint_val.n + tol100
    /\ 100 * data_val.n >= 100 * constraint_val.n - tol100

\* the arithmetic of lines 196-201 raises TypeError on a bound that is a string
MinMaxRaises(field) ==
    /\ HasDataValues(field)
    /\ \/ min_max_constraints[field].minimum.t \notin {"null", "int"}
       \/ min_max_constraints[field].maximum.t \notin {"null", "int"}

\* the min/max consolidation of one field with the maximum warned about only
\* when the minimum is not (elif in place of the second if)
MinMaxStepElif(rep, field) ==
    LET min_constraint_val == min_max_constraints[field].minimum
        max_constraint_val == min_max_constraints[field].maximum
        min_data_val == min_max_data_values[field].min_data
        max_data_val == min_max_data_values[field].max_data
        tolerance == Tolerance100(min_constraint_val, max_constraint_val)
        min_boundary_tested ==
            min_constraint_val = JNull \/ WithinTolerance(min_data_val, min_constraint_val, tolerance)
        max_boundary_tested ==
            max_constraint_val = JNull \/ WithinTolerance(max_data_val, max_constraint_val, tolerance)
        cov == [min_constraint |-> min_constraint_val, max_constraint |-> max_constraint_val,
                min_data_value |-> min_data_val, max_data_value |-> max_data_val,
                min_boundary_tested |-> min_boundary_tested,
                max_boundary_tested |-> max_boundary_tested]
        rep1 == [rep EXCEPT !.coverage.min_max_coverage = (field :> cov) @@ @]
        warned(bound, constraint_val, found, data_val) ==
            [rep1 EXCEPT !.overall_status = "WARNINGS",
                         !.warnings = Append(@,
                             [field |-> field,
                              message |-> <<"Data for ", field,
                                            " does not sufficiently test the " \o bound \o " boundary (",
                                            StrOf(constraint_val),
                                            "). " \o found \o " value found: ",
                                            StrOf(data_val)>>])]
    IN  IF HasDataValues(field)
        THEN IF min_constraint_val # JNull /\ ~min_boundary_tested
             THEN warned("minimum", min_constraint_val, "Smallest", min_data_val)
             ELSE IF max_constraint_val # JNull /\ ~max_boundary_tested
             THEN warned("maximum", max_constraint_val, "Largest", max_data_val)
             ELSE rep1
        ELSE IF min_constraint_val # JNull \/ max_constraint_val # JNull
        THEN [rep EXCEPT !.overall_status = "WARNINGS",
                         !.warnings = Append(@,
                             [field |-> field,
                              message |-> <<"Min/Max constraints for ", field,
                                            " defined in schema but no numeric data found to test them.">>])]
        ELSE rep

\* lines 187-230 for one field
MinMaxStep(rep, field) ==
    LET min_constraint_val == min_max_constraints[field].minimum
        max_constraint_val == min_max_constraints[field].maximum
        min_data_val == min_max_data_values[field].min_data
        max_data_val == min_max_data_values[field].max_data
        tolerance == Tolerance100(min_constraint_val, max_constraint_val)
        min_boundary_tested ==
            min_constraint_val = JNull \/ WithinTolerance(min_data_val, min_constraint_val, tolerance)
        max_boundary_tested ==
            max_constraint_val = JNull \/ WithinTolerance(max_data_val, max_constraint_val, tolerance)
        cov == [min_constraint |-> min_constraint_val, max_constraint |-> max_constraint_val,
                min_data_value |-> min_data_val, max_data_value |-> max_data_val,
                min_boundary_tested |-> min_boundary_tested,
                max_boundary_tested |-> max_boundary_tested]
        rep1 == [rep EXCEPT !.coverage.min_max_coverage = (field :> cov) @@ @]
        rep2 == IF min_constraint_val # JNull /\ ~min_boundary_tested
                THEN [rep1 EXCEPT !.overall_status = "WARNINGS",
                                  !.warnings = Append(@,
                                      [field |-> field,
                                       message |-> <<"Data for ", field,
                                                     " does not sufficiently test the minimum boundary (",
                                                     StrOf(min_constraint_val),
                                                     "). Smallest value found: ",
                                                     StrOf(min_data_val)>>])]
                ELSE rep1
        rep3 == IF max_constraint_val # JNull /\ ~max_boundary_tested
                THEN [rep2 EXCEPT !.overall_status = "WARNINGS",
                                  !.warnings = Append(@,
                                      [field |-> field,
                                       message |-> <<"Data for ", field,
                                                     " does not sufficiently test the maximum boundary (",
                                                     StrOf(max_constraint_val),
                                                     "). Largest value found: ",
                                                     StrOf(max_data_val)>>])]
                ELSE rep2
    IN  IF HasDataValues(field)
        THEN rep3
        ELSE IF min_constraint_val # JNull \/ max_constraint_val # JNull
        THEN [rep EXCEPT !.overall_status = "WARNINGS",
                         !.warnings = Append(@,
                             [field |-> field,
                              message |-> <<"Min/Max constraints for ", field,
                                            " defined in schema but no numeric data found to test them.">>])]
        ELSE rep

\* the final _to_json_serializable(validation_report): every leaf normalized
ToJsonReport(rep) ==
    LET errs == rep.errors
        enums == rep.coverage.enum_coverage
        mm == rep.coverage.min_max_coverage
        err(e) == IF "instance" \in DOMAIN e
                  THEN [e EXCEPT !.instance = ToJsonScalar(e.instance),
                                 !.validator_value = ToJsonScalar(e.validator_value)]
                  ELSE e
        enum(c) == [c EXCEPT !.missing = ToJsonList(c.missing)]
        minmax(c) == [c EXCEPT !.min_constraint = ToJsonScalar(c.min_constraint),
                               !.max_constraint = ToJsonScalar(c.max_constraint),
                               !.min_data_value = ToJsonScalar(c.min_data_value),
                               !.max_data_value = ToJsonScalar(c.max_data_value)]
    IN  [rep EXCEPT !.errors = [k \in DOMAIN errs |-> err(errs[k])],
                    !.coverage.enum_coverage = [f \in DOMAIN enums |-> enum(enums[f])],
                    !.coverage.min_max_coverage = [f \in DOMAIN mm |-> minmax(mm[f])]]

\* ------------------------------------------------------------------ actions

Init ==
    /\ data_df \in DataFrames
    /\ schema \in Schemas
    /\ hash_order \in HashOrders
    /\ earlier = <<>>
    /\ pc = "start"
    /\ i = 0
    /\ validation_report = InitReport
    /\ required_fields_in_schema = {}
    /\ present_required_fields = {}
    /\ enum_values_in_schema = EmptyMap
    /\ enum_values_in_data = EmptyMap
    /\ min_max_constraints = EmptyMap
    /\ min_max_data_values = EmptyMap
    /\ missing_required_fields = <<>>
    /\ todo = <<>>
    /\ raised = "none"
    /\ obj = JNull
    /\ results = <<>>
    /\ NoAICall
    /\ NoApp

locals == <<required_fields_in_schema, present_required_fields, enum_values_in_schema,
            enum_values_in_data, min_max_constraints, min_max_data_values,
            missing_required_fields>>

\* schema is None, in place of not schema
SchemaIsNone(sch) == sch.kind = "none"

\* not schema: None or an empty dict
SchemaIsFalsy(sch) == sch.kind \in {"none", "empty"}

\* lines 62-71: the report of an empty DataFrame
NoDataReport(rep) ==
    [rep EXCEPT !.overall_status = "WARNINGS",
                !.warnings = Append(@, [message |-> <<"No data provided for validation.">>])]

\* lines 73-77: the report of a missing schema
NoSchemaReport(rep) ==
    [rep EXCEPT !.overall_status = "FAIL",
                !.errors = Append(@, [message |-> <<"No schema provided for validation.">>])]

\* the two early returns with the schema test first
EarlyReturnSchemaFirst(df, sch) ==
    IF sch.kind \in {"none", "empty"} THEN "no_schema"
    ELSE IF Empty(df) THEN "no_data" ELSE "none"

\* which of the two early returns the entry of the function takes, if any
EarlyReturn(df, sch) ==
    IF Empty(df) THEN "no_data" ELSE IF SchemaIsFalsy(sch) THEN "no_schema" ELSE "none"

ReturnNoData ==
    /\ pc = "start"
    /\ EarlyReturn(data_df, schema) = "no_data"
    /\ validation_report' = NoDataReport(validation_report)
    /\ pc' = "done"
    /\ UNCHANGED <<app, gemini, normalizer, process, data_df, schema, i, locals, todo, raised>>

ReturnNoSchema ==
    /\ pc = "start"
    /\ EarlyReturn(data_df, schema) = "no_schema"
    /\ validation_report' = NoSchemaReport(validation_report)
    /\ pc' = "done"
    /\ UNCHANGED <<app, gemini, normalizer, process, data_df, schema, i, locals, todo, raised>>

\* line 86 with the records normalized inside the DataFrame
DataFrameConvertedInPlace(df) == [df EXCEPT !.rows = ConvertDataframe(df)]

\* the DataFrame after line 86: to_dict(orient='records') builds new dicts and
\* _to_json_serializable new values, so the cells stay as they were
DataFrameAfterConvert(df) == df

\* lines 79-86: past both early returns, the records are converted
BeginValidation ==
    /\ pc = "start"
    /\ EarlyReturn(data_df, schema) = "none"
    /\ pc' = "validate"
    /\ i' = 0
    /\ data_df' = DataFrameAfterConvert(data_df)
    /\ UNCHANGED <<app, gemini, normalizer, process, schema, validation_report, locals, todo, raised>>

\* lines 90-112, one record
ValidateRecord ==
    /\ pc = "validate"
    /\ i < Len(data_df.rows)
    /\ validation_report' = CheckerStep(validation_report, i + 1)
    /\ i' = i + 1
    /\ UNCHANGED <<app, gemini, normalizer, process, data_df, schema, pc, locals, todo, raised>>

\* lines 117-155: the sets and maps of the coverage checker
Collect ==
    /\ pc = "validate"
    /\ i = Len(data_df.rows)
    /\ IF CollectRaises(schema)
       THEN /\ pc' = "raised"
            /\ raised' = "TypeError"
            /\ UNCHANGED <<locals>>
       ELSE /\ pc' = "required"
            /\ required_fields_in_schema' = RequiredFieldsInSchema(schema)
            /\ present_required_fields' = PresentRequiredFields(data_df, schema)
            /\ enum_values_in_schema' = EnumValuesInSchema(schema)
            /\ enum_values_in_data' = EnumValuesInData(data_df, schema)
            /\ min_max_constraints' = MinMaxConstraints(schema)
            /\ min_max_data_values' = MinMaxDataValues(data_df, schema)
            /\ UNCHANGED <<missing_required_fields, raised>>
    /\ UNCHANGED <<app, gemini, normalizer, process, data_df, schema, i, validation_report, todo>>

\* list(a_set) of a set of names: the order follows the hashes of the names,
\* which are drawn when the process starts and stay for its lifetime
ListOfSet(S, order) == SelectSeq(order, LAMBDA name : name \in S)

\* list(required_fields_in_schema - present_required_fields)
MissingLists == {ListOfSet(required_fields_in_schema \ present_required_fields, hash_order)}

\* lines 157-169
ConsolidateRequired ==
    /\ pc = "required"
    /\ \E missing \in MissingLists :
        /\ missing_required_fields' = missing
        /\ IF RequiredRaises(missing)
           THEN /\ pc' = "raised"
                /\ raised' = "TypeError"
                /\ UNCHANGED <<validation_report, todo>>
           ELSE /\ pc' = "enum"
                /\ validation_report' = RequiredStep(validation_report, missing)
                /\ todo' = EnumFields(schema)
                /\ UNCHANGED raised
    /\ UNCHANGED <<app, gemini, normalizer, process, data_df, schema, i, required_fields_in_schema, present_required_fields,
                   enum_values_in_schema, enum_values_in_data, min_max_constraints,
                   min_max_data_values>>

\* lines 171-185, one field
ConsolidateEnum ==
    /\ pc = "enum"
    /\ todo # <<>>
    /\ validation_report' = EnumStep(validation_report, Head(todo))
    /\ todo' = Tail(todo)
    /\ UNCHANGED <<app, gemini, normalizer, process, data_df, schema, pc, i, locals, raised>>

EnumDone ==
    /\ pc = "enum"
    /\ todo = <<>>
    /\ pc' = "minmax"
    /\ todo' = MinMaxFields(schema)
    /\ UNCHANGED <<app, gemini, normalizer, process, data_df, schema, i, validation_report, locals, raised>>

\* lines 187-230, one field
ConsolidateMinMax ==
    /\ pc = "minmax"
    /\ todo # <<>>
    /\ IF MinMaxRaises(Head(todo))
       THEN /\ pc' = "raised"
            /\ raised' = "TypeError"
            /\ UNCHANGED <<validation_report, todo>>
       ELSE /\ validation_report' = MinMaxStep(validation_report, Head(todo))
            /\ todo' = Tail(todo)
            /\ UNCHANGED <<pc, raised>>
    /\ UNCHANGED <<app, gemini, normalizer, process, data_df, schema, i, locals>>

\* lines 232-234
Finish ==
    /\ pc = "minmax"
    /\ todo = <<>>
    /\ validation_report' = ToJsonReport(validation_report)
    /\ pc' = "done"
    /\ UNCHANGED <<app, gemini, normalizer, process, data_df, schema, i, locals, todo, raised>>

Next ==
    \/ ReturnNoData
    \/ ReturnNoSchema
    \/ BeginValidation
    \/ ValidateRecord
    \/ Collect
    \/ ConsolidateRequired
    \/ ConsolidateEnum
    \/ EnumDone
    \/ ConsolidateMinMax
    \/ Finish

Spec == Init /\ [][Next]_vars

\* the same call on the inputs of the boundary palette
InitBoundary ==
    /\ data_df \in BoundaryDataFrames
    /\ schema \in BoundarySchemas
    /\ hash_order = <<"a", "c", "7", "[]">>
    /\ earlier = <<>>
    /\ pc = "start"
    /\ i = 0
    /\ validation_report = InitReport
    /\ required_fields_in_schema = {}
    /\ present_required_fields = {}
    /\ enum_values_in_schema = EmptyMap
    /\ enum_values_in_data = EmptyMap
    /\ min_max_constraints = EmptyMap
    /\ min_max_data_values = EmptyMap
    /\ missing_required_fields = <<>>
    /\ todo = <<>>
    /\ raised = "none"
    /\ obj = JNull
    /\ results = <<>>
    /\ NoAICall
    /\ NoApp

SpecBoundary == InitBoundary /\ [][Next]_vars

\* ------------------------------------------------- successive invocations

\* what the running invocation leaves behind
Invocation ==
    [data_df |-> data_df, schema |-> schema, hash_order |-> hash_order,
     raised |-> raised, report |-> validation_report]

\* the running invocation is over and another begins, on any inputs, in a
\* process with the given order: the instance has no attribute (lines 9-11),
\* the report and the locals are built anew (lines 62-71, 117-125)
NextCall(order) ==
    /\ pc \in {"done", "raised"}
    /\ Len(earlier) < MaxCalls - 1
    /\ earlier' = Append(earlier, Invocation)
    /\ hash_order' = order
    /\ data_df' \in CallDataFrames
    /\ schema' \in CallSchemas
    /\ pc' = "start"
    /\ i' = 0
    /\ validation_report' = InitReport
    /\ required_fields_in_schema' = {}
    /\ present_required_fields' = {}
    /\ enum_values_in_schema' = EmptyMap
    /\ enum_values_in_data' = EmptyMap
    /\ min_max_constraints' = EmptyMap
    /\ min_max_data_values' = EmptyMap
    /\ missing_required_fields' = <<>>
    /\ todo' = <<>>
    /\ raised' = "none"
    /\ UNCHANGED <<app, gemini, normalizer>>

\* another invocation in the same process, on the same or another instance
CallAgain == \E order \in {hash_order} : NextCall(order)

\* another invocation in another process
CallInNewProcess == \E order \in HashOrders \ {hash_order} : NextCall(order)

InitCalls ==
    /\ data_df \in CallDataFrames
    /\ schema \in CallSchemas
    /\ hash_order \in HashOrders
    /\ earlier = <<>>
    /\ pc = "start"
    /\ i = 0
    /\ validation_report = InitReport
    /\ required_fields_in_schema = {}
    /\ present_required_fields = {}
    /\ enum_values_in_schema = EmptyMap
    /\ enum_values_in_data = EmptyMap
    /\ min_max_constraints = EmptyMap
    /\ min_max_data_values = EmptyMap
    /\ missing_required_fields = <<>>
    /\ todo = <<>>
    /\ raised = "none"
    /\ obj = JNull
    /\ results = <<>>
    /\ NoAICall
    /\ NoApp

NextCalls == Next \/ CallAgain \/ CallInNewProcess

SpecCalls == InitCalls /\ [][NextCalls]_vars

\* -------------------------------------------- the normalizer as a machine

\* the first application of _to_json_serializable
Normalize ==
    /\ results = <<>>
    /\ results' = <<ToJsonSerializable(obj)>>
    /\ UNCHANGED <<app, gemini, obj, process, data_df, schema, pc, i, validation_report, locals, todo, raised>>

\* _to_json_serializable applied to what it returned
NormalizeAgain ==
    /\ Len(results) = 1
    /\ results[1] # Raised
    /\ results' = Append(results, ToJsonSerializable(results[1]))
    /\ UNCHANGED <<app, gemini, obj, process, data_df, schema, pc, i, validation_report, locals, todo, raised>>

NextNormalizer == Normalize \/ NormalizeAgain

InitNormalizer ==
    /\ obj \in Objects
    /\ results = <<>>
    /\ hash_order = <<"a", "c", "7", "[]">>
    /\ earlier = <<>>
    /\ data_df = [cols |-> {}, rows |-> <<>>]
    /\ schema = [kind |-> "none", required |-> <<>>, has_props |-> FALSE, props |-> EmptyMap]
    /\ pc = "start"
    /\ i = 0
    /\ validation_report = InitReport
    /\ required_fields_in_schema = {}
    /\ present_required_fields = {}
    /\ enum_values_in_schema = EmptyMap
    /\ enum_values_in_data = EmptyMap
    /\ min_max_constraints = EmptyMap
    /\ min_max_data_values = EmptyMap
    /\ missing_required_fields = <<>>
    /\ todo = <<>>
    /\ raised = "none"
    /\ NoAICall
    /\ NoApp

SpecNormalizer == InitNormalizer /\ [][NextNormalizer]_vars

\* ------------------------------------------------- the two passes as a whole

\* the call went past both early returns
FullPath == ~Empty(data_df) /\ ~SchemaIsFalsy(schema)

RECURSIVE CheckerPass(_, _)
\* the validation loop (lines 90-112) from record k on
CheckerPass(rep, k) ==
    IF k > Len(data_df.rows) THEN rep ELSE CheckerPass(CheckerStep(rep, k), k + 1)

RECURSIVE EnumPass(_, _)
\* the enum consolidation loop (lines 171-185) over the fields given
EnumPass(rep, fields) ==
    IF fields = <<>> THEN rep ELSE EnumPass(EnumStep(rep, Head(fields)), Tail(fields))

RECURSIVE MinMaxPass(_, _)
\* the min/max consolidation loop (lines 187-230) over the fields given
MinMaxPass(rep, fields) ==
    IF fields = <<>> THEN rep ELSE MinMaxPass(MinMaxStep(rep, Head(fields)), Tail(fields))

\* the coverage consolidation (lines 157-230), given the enumeration of the
\* missing set
AnalyzerPass(rep, missing) ==
    MinMaxPass(EnumPass(RequiredStep(rep, missing), EnumFields(schema)), MinMaxFields(schema))

\* the report of the function with the two passes in the other order
AnalyzerFirstReport ==
    ToJsonReport(CheckerPass(AnalyzerPass(InitReport, missing_required_fields), 1))

\* ------------------------------------------------------------------ claims

Returned == pc = "done"

\* the outcome of validating record k (1-based) on its own
OutcomeOf(k) == Validate(ConvertDataframe(data_df)[k], schema).outcome

\* C1: in the report returned, overall_status is FAIL iff errors is non-empty,
\* else WARNINGS iff warnings is non-empty, else PASS.
C1_StatusDerivedFromLists ==
    Returned =>
        /\ validation_report.overall_status = "FAIL" <=> validation_report.errors # <<>>
        /\ validation_report.errors = <<>> =>
            /\ validation_report.overall_status = "WARNINGS" <=> validation_report.warnings # <<>>
            /\ validation_report.warnings = <<>> => validation_report.overall_status = "PASS"

\* a returned report that holds errors and warnings
C1_ErrorsAndWarnings ==
    /\ Returned
    /\ validation_report.errors # <<>>
    /\ validation_report.warnings # <<>>

\* C2: during one run overall_status only moves forward along
\* PASS -> WARNINGS -> FAIL: no step takes FAIL to another status, and no step
\* takes WARNINGS to PASS.
C2_StatusMonotonic ==
    [][/\ validation_report.overall_status = "FAIL" =>
            validation_report'.overall_status = "FAIL"
       /\ validation_report.overall_status = "WARNINGS" =>
            validation_report'.overall_status # "PASS"]_vars

\* C3: the report returned on the full path (Checker, then Analyzer) equals the
\* report of the Analyzer followed by the Checker.
C3_OrderInsensitive ==
    (Returned /\ FullPath) => validation_report = AnalyzerFirstReport

\* C4: on the full path errors holds exactly one entry per record that does not
\* validate and none for a record that does, each entry's row_index is the
\* record's 0-based position, entries are in ascending row_index order, and
\* any entry makes overall_status FAIL.
C4_OneErrorPerBadRecord ==
    (Returned /\ FullPath) =>
        LET errors == validation_report.errors
            bad == {k \in DOMAIN data_df.rows : OutcomeOf(k) # "ok"}
        IN  /\ Len(errors) = Cardinality(bad)
            /\ \A j \in DOMAIN errors : errors[j].row_index + 1 \in bad
            /\ \A j, l \in DOMAIN errors : j < l => errors[j].row_index < errors[l].row_index
            /\ errors # <<>> => validation_report.overall_status = "FAIL"

\* the report's entries for the record at 0-based position row
EntriesOfRow(row) ==
    {j \in DOMAIN validation_report.errors : validation_report.errors[j].row_index = row}

\* every record after record k has an entry iff it does not validate
LaterRecordsValidated(k) ==
    /\ i = Len(data_df.rows)
    /\ \A l \in DOMAIN data_df.rows :
        l > k => (OutcomeOf(l) # "ok" <=> EntriesOfRow(l - 1) # {})

ZeroedCoverage ==
    [required_fields_coverage |-> [total |-> 0, covered |-> 0, missing |-> <<>>],
     enum_coverage |-> EmptyMap, min_max_coverage |-> EmptyMap]

\* no record was validated and nothing was collected for coverage
NothingAnalyzed ==
    /\ i = 0
    /\ required_fields_in_schema = {} /\ present_required_fields = {}
    /\ enum_values_in_schema = EmptyMap /\ enum_values_in_data = EmptyMap
    /\ min_max_constraints = EmptyMap /\ min_max_data_values = EmptyMap

DatasetIsEmpty == Len(data_df.rows) = 0 \/ data_df.cols = {}

SchemaIsMissing == schema.kind \in {"none", "empty"}

\* C6: with an empty dataset the call returns at once: it never enters the
\* validation loop or the coverage checker, and the report is WARNINGS with no
\* error, the one warning "No data provided for validation." and the zeroed
\* coverage.
C6_EmptyDatasetReport ==
    DatasetIsEmpty =>
        /\ pc \in {"start", "done"}
        /\ Returned =>
            /\ validation_report =
                [overall_status |-> "WARNINGS", errors |-> <<>>,
                 warnings |-> <<[message |-> <<"No data provided for validation.">>]>>,
                 coverage |-> ZeroedCoverage]
            /\ NothingAnalyzed

\* the call has returned on an empty dataset and a missing schema
C6_EmptyDatasetReturned == Returned /\ DatasetIsEmpty /\ SchemaIsMissing

NoSchemaReturn ==
    /\ pc \in {"start", "done"}
    /\ Returned =>
        /\ validation_report =
            [overall_status |-> "FAIL",
             errors |-> <<[message |-> <<"No schema provided for validation.">>]>>,
             warnings |-> <<>>, coverage |-> ZeroedCoverage]
        /\ NothingAnalyzed

\* C7 as stated: with a missing or empty schema, for every dataset, the call
\* returns at once with FAIL, the one error "No schema provided for
\* validation.", no warning and the zeroed coverage.
C7_NoSchemaAnyDataset == SchemaIsMissing => NoSchemaReturn

\* C7 as amended: the same, for every non-empty dataset.
C7_NoSchemaNonEmptyDataset == (SchemaIsMissing /\ ~DatasetIsEmpty) => NoSchemaReturn

\* the call has returned on a non-empty dataset and a missing schema
C7_NoSchemaReturned == Returned /\ SchemaIsMissing /\ ~DatasetIsEmpty

\* C8: no exception leaves validate_data_against_schema, whatever the schema
\* holds.
C8_NeverRaises == pc # "raised" /\ raised = "none"

\* the required-field consolidation has written its part of the report
AfterRequired == pc \in {"enum", "minmax"} \/ (Returned /\ FullPath)

RequiredCoverage == validation_report.coverage.required_fields_coverage

\* the required names that some record holds a non-null value for
CoveredNames ==
    {name \in Range(schema.required) :
        \E k \in DOMAIN data_df.rows :
            name \in DOMAIN data_df.rows[k] /\ data_df.rows[k][name].t # "nan"}

\* C9: total is the number of required names, covered the number of required
\* names with a non-null value in at least one record, missing lists exactly
\* the other required names, so covered + |missing| = total and covered <= total.
C9_RequiredCoverage ==
    AfterRequired =>
        /\ RequiredCoverage.total = Cardinality(Range(schema.required))
        /\ RequiredCoverage.covered = Cardinality(CoveredNames)
        /\ Range(RequiredCoverage.missing) = Range(schema.required) \ CoveredNames
        /\ Len(RequiredCoverage.missing) = Cardinality(Range(RequiredCoverage.missing))
        /\ RequiredCoverage.covered + Len(RequiredCoverage.missing) = RequiredCoverage.total
        /\ RequiredCoverage.covered <= RequiredCoverage.total

\* a returned report with one required field covered, one absent from the data
C9_OneCoveredOneMissing ==
    /\ Returned
    /\ FullPath
    /\ RequiredCoverage.covered = 1
    /\ RequiredCoverage.missing = <<"c">>

\* where the schema's required list first declares the name
FirstDeclared(name) ==
    CHOOSE k \in DOMAIN schema.required :
        schema.required[k] = name /\ \A j \in 1..(k - 1) : schema.required[j] # name

\* C10: missing lists the uncovered required fields in the order in which the
\* schema's required list declares them.
C10_MissingInDeclarationOrder ==
    AfterRequired =>
        \A j, l \in DOMAIN RequiredCoverage.missing :
            j < l => FirstDeclared(RequiredCoverage.missing[j])
                        < FirstDeclared(RequiredCoverage.missing[l])

\* the enum consolidation has written its part of the report
AfterEnum == pc = "minmax" \/ (Returned /\ FullPath)

EnumCoverage == validation_report.coverage.enum_coverage

\* the properties of the schema that declare an enum
EnumProperties == {f \in DOMAIN schema.props : schema.props[f].has_enum}

DeclaredValues(f) == Range(schema.props[f].enum)

\* the non-null values the records hold for field f
ObservedValues(f) ==
    IF f \in data_df.cols
    THEN {ToJsonScalar(data_df.rows[k][f]) : k \in DOMAIN data_df.rows} \ {JNull}
    ELSE {}

\* C11: every property that declares an enum has an entry (fully covered or
\* not) whose total is the number of distinct declared values, whose covered
\* is the number of declared values observed in the data (so covered <= total)
\* and whose missing lists the declared values never observed.
C11_EnumCoverage ==
    AfterEnum =>
        /\ DOMAIN EnumCoverage = EnumProperties
        /\ \A f \in EnumProperties :
            /\ EnumCoverage[f].total = Cardinality(DeclaredValues(f))
            /\ EnumCoverage[f].covered = Cardinality(ObservedValues(f) \cap DeclaredValues(f))
            /\ EnumCoverage[f].covered <= EnumCoverage[f].total
            /\ Range(EnumCoverage[f].missing) = DeclaredValues(f) \ ObservedValues(f)

\* C11 without covered: an entry for every enum property, total and missing as stated
C11_TotalAndMissing ==
    AfterEnum =>
        /\ DOMAIN EnumCoverage = EnumProperties
        /\ \A f \in EnumProperties :
            /\ EnumCoverage[f].total = Cardinality(DeclaredValues(f))
            /\ Range(EnumCoverage[f].missing) = DeclaredValues(f) \ ObservedValues(f)

\* a returned report whose covered counts a value the enum does not declare
C11_CoveredCountsUndeclared ==
    /\ Returned
    /\ FullPath
    /\ \E f \in DOMAIN EnumCoverage :
        /\ ObservedValues(f) \ DeclaredValues(f) # {}
        /\ EnumCoverage[f].covered = Cardinality(ObservedValues(f))

MinMaxCoverage == validation_report.coverage.min_max_coverage

\* the numbers the records hold for field f
NumbersOf(f) ==
    IF f \in data_df.cols
    THEN {data_df.rows[k][f].n : k \in {j \in DOMAIN data_df.rows : data_df.rows[j][f].t = "np_int"}}
    ELSE {}

\* the column of field f is numeric and holds a number
NumericColumn(f) ==
    /\ NumbersOf(f) # {}
    /\ \A k \in DOMAIN data_df.rows : data_df.rows[k][f].t \in {"np_int", "nan"}

\* 100 * the tolerance the rule states for property details d
StatedTolerance100(d) == IF d.has_min /\ d.has_max THEN d.maximum.n - d.minimum.n ELSE 1

\* extreme lies within [bound - tolerance, bound + tolerance], times 100
InBand(extreme, bound, tol100) ==
    100 * bound - tol100 <= 100 * extreme /\ 100 * extreme <= 100 * bound + tol100

\* the properties with a minimum or a maximum
BoundedProperties == {f \in DOMAIN schema.props : schema.props[f].has_min \/ schema.props[f].has_max}

\* C12: for a bounded field with a numeric column, a bound is flagged tested
\* iff it is undeclared or the column's extreme (smallest value for minimum,
\* largest for maximum) lies within [bound - tolerance, bound + tolerance],
\* tolerance being 1% of (maximum - minimum) with both bounds declared and 0.01
\* with one; bounds 0..100 with data {0, 50, 100} give both flags true, data
\* {10, 90} both flags false.
C12_BoundaryTestedRule ==
    (Returned /\ FullPath) =>
        \A f \in BoundedProperties :
            NumericColumn(f) =>
                LET d == schema.props[f]
                    tol100 == StatedTolerance100(d)
                IN  /\ f \in DOMAIN MinMaxCoverage
                    /\ MinMaxCoverage[f].min_boundary_tested <=>
                          (~d.has_min \/ InBand(SetMin(NumbersOf(f)), d.minimum.n, tol100))
                    /\ MinMaxCoverage[f].max_boundary_tested <=>
                          (~d.has_max \/ InBand(SetMax(NumbersOf(f)), d.maximum.n, tol100))
                    /\ (d = Bounds0To100 /\ NumbersOf(f) = {0, 50, 100}) =>
                          MinMaxCoverage[f].min_boundary_tested /\ MinMaxCoverage[f].max_boundary_tested
                    /\ (d = Bounds0To100 /\ NumbersOf(f) = {10, 90}) =>
                          ~MinMaxCoverage[f].min_boundary_tested /\ ~MinMaxCoverage[f].max_boundary_tested

\* bounds 0..100: the smallest value 1 is inside the band of the minimum, the
\* largest value 90 outside the band of the maximum
C12_InsideAndOutsideBand ==
    /\ Returned
    /\ FullPath
    /\ schema.props["a"] = Bounds0To100
    /\ NumbersOf("a") = {1, 50, 90}
    /\ MinMaxCoverage["a"].min_boundary_tested
    /\ ~MinMaxCoverage["a"].max_boundary_tested

\* the warnings of field f that say its bounds could not be exercised
NotExercisedWarnings(f) ==
    {j \in DOMAIN validation_report.warnings :
        /\ validation_report.warnings[j].field = f
        /\ validation_report.warnings[j].message =
              <<"Min/Max constraints for ", f,
                " defined in schema but no numeric data found to test them.">>}

\* C13: a field that declares a minimum or a maximum and whose column is
\* absent, non-numeric or entirely null gets no min_max_coverage entry and
\* exactly one warning that the constraint could not be exercised; a field has
\* an entry only when its column is numeric and holds a non-null value (and
\* then no such warning).
C13_NoNumericData ==
    (Returned /\ FullPath) =>
        /\ \A f \in BoundedProperties :
              IF NumericColumn(f)
              THEN NotExercisedWarnings(f) = {}
              ELSE f \notin DOMAIN MinMaxCoverage /\ Cardinality(NotExercisedWarnings(f)) = 1
        /\ \A f \in DOMAIN MinMaxCoverage : f \in BoundedProperties /\ NumericColumn(f)

\* a returned report for a bounded field whose column the data does not have
C13_ColumnAbsent ==
    /\ Returned
    /\ FullPath
    /\ \E f \in BoundedProperties :
        /\ f \notin data_df.cols
        /\ f \notin DOMAIN MinMaxCoverage
        /\ Cardinality(NotExercisedWarnings(f)) = 1

\* the warnings of the required-field consolidation
RequiredWarnings ==
    {j \in DOMAIN validation_report.warnings :
        /\ validation_report.warnings[j].field = "N/A"
        /\ Head(validation_report.warnings[j].message) = "Missing or entirely null required fields: "}

\* the required names no record holds a non-null value for
MissingNames == Range(schema.required) \ CoveredNames

\* C14: with one or more required fields missing the report holds exactly one
\* required-field warning, and it names every missing field; with none
\* missing it holds no required-field warning.
C14_OneRequiredWarning ==
    AfterRequired =>
        IF MissingNames # {}
        THEN /\ Cardinality(RequiredWarnings) = 1
             /\ \A j \in RequiredWarnings :
                   MissingNames \subseteq Range(validation_report.warnings[j].message)
        ELSE RequiredWarnings = {}

\* a returned report with two required fields missing and one warning for both
C14_TwoMissingOneWarning ==
    /\ Returned
    /\ FullPath
    /\ MissingNames = {"a", "c"}
    /\ Cardinality(RequiredWarnings) = 1

\* the enum warnings of field f
EnumWarnings(f) ==
    {j \in DOMAIN validation_report.warnings :
        /\ validation_report.warnings[j].field = f
        /\ Head(validation_report.warnings[j].message) =
              "Enum values in schema not present in data for "}

\* C15: the report holds exactly one enum warning for each enum field with a
\* declared value never observed (one per field, not one for all), none for
\* an enum field that is fully covered, and with any such warning the status
\* is WARNINGS or FAIL.
C15_OneWarningPerEnumField ==
    AfterEnum =>
        /\ \A f \in EnumProperties :
              Cardinality(EnumWarnings(f)) =
                  IF DeclaredValues(f) \ ObservedValues(f) # {} THEN 1 ELSE 0
        /\ (\E f \in EnumProperties : EnumWarnings(f) # {}) =>
              validation_report.overall_status \in {"WARNINGS", "FAIL"}

\* a returned report with two enum fields: one fully covered and without a
\* warning, the other with a value missing and its own warning
C15_CoveredAndUncovered ==
    /\ Returned
    /\ FullPath
    /\ EnumProperties = {"a", "b"}
    /\ DeclaredValues("a") \subseteq ObservedValues("a")
    /\ EnumWarnings("a") = {}
    /\ Cardinality(EnumWarnings("b")) = 1

\* the warnings of field f about its untested minimum (maximum)
MinimumWarnings(f) ==
    {j \in DOMAIN validation_report.warnings :
        /\ validation_report.warnings[j].field = f
        /\ validation_report.warnings[j].message[3] =
              " does not sufficiently test the minimum boundary ("}
MaximumWarnings(f) ==
    {j \in DOMAIN validation_report.warnings :
        /\ validation_report.warnings[j].field = f
        /\ validation_report.warnings[j].message[3] =
              " does not sufficiently test the maximum boundary ("}

\* C16: for every field with a min_max_coverage entry the report holds exactly
\* one warning for each declared bound whose tested flag is false and none for
\* an undeclared or a tested bound (0, 1 or 2 per field); the warning of the
\* minimum carries the minimum and the smallest value observed, the warning of
\* the maximum the maximum and the largest value observed.
C16_OneWarningPerUntestedBound ==
    (Returned /\ FullPath) =>
        \A f \in DOMAIN MinMaxCoverage :
            LET d == schema.props[f]
                entry == MinMaxCoverage[f]
            IN  /\ Cardinality(MinimumWarnings(f)) =
                      IF d.has_min /\ ~entry.min_boundary_tested THEN 1 ELSE 0
                /\ Cardinality(MaximumWarnings(f)) =
                      IF d.has_max /\ ~entry.max_boundary_tested THEN 1 ELSE 0
                /\ \A j \in MinimumWarnings(f) :
                      validation_report.warnings[j].message =
                          <<"Data for ", f, " does not sufficiently test the minimum boundary (",
                            ToString(d.minimum.n), "). Smallest value found: ",
                            ToString(SetMin(NumbersOf(f)))>>
                /\ \A j \in MaximumWarnings(f) :
                      validation_report.warnings[j].message =
                          <<"Data for ", f, " does not sufficiently test the maximum boundary (",
                            ToString(d.maximum.n), "). Largest value found: ",
                            ToString(SetMax(NumbersOf(f)))>>

\* a returned report with both bounds declared and untested, and two warnings
C16_BothBoundsUntested ==
    /\ Returned
    /\ FullPath
    /\ "a" \in DOMAIN MinMaxCoverage
    /\ NumbersOf("a") = {10, 90}
    /\ Cardinality(MinimumWarnings("a")) = 1
    /\ Cardinality(MaximumWarnings("a")) = 1

\* the schema declares no required field, no enum, no minimum and no maximum
NoCoverageConstraints ==
    /\ schema.required = <<>>
    /\ \A f \in DOMAIN schema.props :
          ~schema.props[f].has_enum /\ ~schema.props[f].has_min /\ ~schema.props[f].has_max

\* every record satisfies the schema
EveryRecordValid == \A k \in DOMAIN data_df.rows : OutcomeOf(k) = "ok"

CleanPass ==
    /\ validation_report.overall_status = "PASS"
    /\ validation_report.errors = <<>>
    /\ validation_report.warnings = <<>>

\* C17 as stated: a schema (the empty one included) without required, enum,
\* minimum and maximum, and a non-empty dataset whose records all satisfy it,
\* give overall_status = PASS, errors = [] and warnings = [].
C17_CleanPassAnySchema ==
    (Returned /\ ~Empty(data_df) /\ schema.kind \in {"empty", "object"}
        /\ NoCoverageConstraints /\ EveryRecordValid) => CleanPass

\* C17 for a schema that is not empty: PASS, no errors, no warnings.
C17_CleanPass ==
    (Returned /\ ~Empty(data_df) /\ schema.kind = "object"
        /\ NoCoverageConstraints /\ EveryRecordValid) => CleanPass

\* a returned clean report for a dataset of two records and a schema with a
\* property
C17_CleanPassReturned ==
    /\ Returned
    /\ Len(data_df.rows) = 2
    /\ schema.kind = "object"
    /\ DOMAIN schema.props = {"a"}
    /\ NoCoverageConstraints
    /\ EveryRecordValid
    /\ CleanPass

\* C18: _to_json_serializable is idempotent: applied to its own result it
\* returns that result, for every argument shape, a NaN held by a numpy float,
\* temporal values, nested lists and dicts included.
C18_Idempotent == Len(results) = 2 => results[2] = results[1]

\* a numpy float holding NaN comes back as the float NaN, and that as None
C18_NaNThenNone == obj = NpNaN /\ results = <<NaN, JNull>>

\* C19: _to_json_serializable returns a value and never raises, for every kind
\* of argument (dict, list, Series, DataFrame, numpy scalar, timestamp, missing
\* value, tuple or array, arbitrary object), and an object of an unrecognized
\* type comes back as its string representation.
C19_Total ==
    /\ \A k \in DOMAIN results : results[k] # Raised
    /\ (obj.t = "object" /\ results # <<>>) => results[1] = JStr(obj.s)

\* a numpy array of two elements makes the call raise
C19_ArrayRaises == obj = NdArray(<<NpInt(1), NpInt(1)>>) /\ results = <<Raised>>

\* a JSON primitive, or a JSON array or object
JsonLeaf(v) == v.t \in {"null", "bool", "int", "float", "str", "list", "dict"}

\* C20: in the report returned on the full path every leaf is JSON-primitive:
\* no numpy scalar, timestamp, NaN or NaT is left in an error's instance or
\* validator value, in an enum's missing list or in a min/max entry's bounds
\* and observed extremes; the messages of errors and warnings are strings.
C20_JsonPrimitiveLeaves ==
    (Returned /\ FullPath) =>
        /\ \A j \in DOMAIN validation_report.errors :
              "instance" \in DOMAIN validation_report.errors[j] =>
                  /\ JsonLeaf(validation_report.errors[j].instance)
                  /\ JsonLeaf(validation_report.errors[j].validator_value)
        /\ \A f \in DOMAIN EnumCoverage :
              \A k \in DOMAIN EnumCoverage[f].missing : JsonLeaf(EnumCoverage[f].missing[k])
        /\ \A f \in DOMAIN MinMaxCoverage :
              /\ JsonLeaf(MinMaxCoverage[f].min_constraint)
              /\ JsonLeaf(MinMaxCoverage[f].max_constraint)
              /\ JsonLeaf(MinMaxCoverage[f].min_data_value)
              /\ JsonLeaf(MinMaxCoverage[f].max_data_value)

\* a returned report with the error of a record whose cell is NaN, its
\* instance null, and a min/max entry whose extremes are ints
C20_NaNInstanceIsNull ==
    /\ Returned
    /\ FullPath
    /\ "a" \in DOMAIN MinMaxCoverage
    /\ MinMaxCoverage["a"].min_data_value.t = "int"
    /\ \E j \in DOMAIN validation_report.errors :
        /\ "instance" \in DOMAIN validation_report.errors[j]
        /\ data_df.rows[validation_report.errors[j].row_index + 1]["a"] = NaN
        /\ validation_report.errors[j].instance = JNull

\* C21: no step of validate_data_against_schema (early return, validation of
\* a record, coverage analysis, final normalization) changes the caller's
\* dataset or schema.
C21_InputsUnchanged == [][data_df' = data_df /\ schema' = schema]_vars

\* a call returned on the full path whose records were changed by the
\* conversion, though the dataset was not
C21_ConvertedRecordsDiffer ==
    /\ Returned
    /\ FullPath
    /\ ConvertDataframe(data_df) # data_df.rows
    /\ validation_report.errors # <<>>
    /\ validation_report.warnings # <<>>

\* the earlier invocations that returned a report for the inputs of the
\* running one
EarlierWithEqualInputs ==
    {k \in DOMAIN earlier :
        /\ earlier[k].data_df = data_df
        /\ earlier[k].schema = schema
        /\ earlier[k].raised = "none"}

\* C22: an invocation returns the report that every earlier invocation with
\* equal inputs returned, the order of every list included, whatever calls
\* came between and whichever instance or process ran them.
C22_EqualInputsEqualReports ==
    Returned => \A k \in EarlierWithEqualInputs : earlier[k].report = validation_report

\* C22 within one process: equal inputs give equal reports.
C22_EqualReportsInOneProcess ==
    Returned =>
        \A k \in EarlierWithEqualInputs :
            earlier[k].hash_order = hash_order => earlier[k].report = validation_report

\* two invocations with equal inputs in two processes whose reports list the
\* missing required fields in different orders
C22_OrderDiffersAcrossProcesses ==
    /\ Returned
    /\ \E k \in EarlierWithEqualInputs :
        /\ earlier[k].hash_order # hash_order
        /\ earlier[k].report.coverage.required_fields_coverage.missing
              # validation_report.coverage.required_fields_coverage.missing
        /\ Range(earlier[k].report.coverage.required_fields_coverage.missing)
              = Range(validation_report.coverage.required_fields_coverage.missing)

\* ------------------------------------------------ _call_gemini_with_retry

MAX_RETRIES == 5

\* seconds
INITIAL_RETRY_DELAY == 2

\* RETRY_JITTER_MAX = 0.5 seconds, counted in tenths of a second
RETRY_JITTER_MAX == 5

\* times are counted in tenths of a second
TenthsPerSecond == 10

\* random.uniform(0, RETRY_JITTER_MAX): its two ends
Jitters == {0, RETRY_JITTER_MAX}

\* what generate_content, or the reading of response.text, can raise:
\* ResourceExhausted and InternalServerError are GoogleAPIErrors, the
\* ValueError is the one response.text raises for a response without text
ExceptionTypes == {"ResourceExhausted", "InternalServerError", "GoogleAPIError",
                   "Exception", "ValueError"}

\* a handler that takes every exception for an API error
IsGoogleAPIErrorAny(type) == TRUE

\* isinstance(e, GoogleAPIError)
IsGoogleAPIError(type) == type \in {"ResourceExhausted", "InternalServerError", "GoogleAPIError"}

\* the except clause that catches an exception of the try of lines 83-86
Handler(type) ==
    CASE type = "ResourceExhausted" -> "quota"
      [] IsGoogleAPIError(type) -> "api"
      [] OTHER -> "unexpected"

\* the texts a response can carry: a JSON array, the same in a markdown
\* fence, an empty array, a JSON object, and text that is not JSON
Texts == {"[{}]", "<fence>json [{}] <fence>", "[]", "{}", "Sorry"}

\* one call of generate_content: the exception of the attempt, or the text
Attempt(type, text) == [type |-> type, text |-> text]

\* how the helper ends: kind is "none", "return" or "raise"; attempt is the
\* call whose text or exception leaves the helper, 0 when it is of no call
Outcome(kind, type, text, attempt) ==
    [kind |-> kind, type |-> type, text |-> text, attempt |-> attempt]

RECURSIVE Pow2(_)
Pow2(n) == IF n = 0 THEN 1 ELSE 2 * Pow2(n - 1)

\* a base delay that does not grow
BaseDelayFlat(n) == INITIAL_RETRY_DELAY * TenthsPerSecond

\* INITIAL_RETRY_DELAY * (2 ** (retry_count - 1))
BaseDelay(n) == INITIAL_RETRY_DELAY * Pow2(n - 1) * TenthsPerSecond

\* lines 94, 102
WaitTime(n, jitter) == BaseDelay(n) + jitter

\* a counter that stays at its first value
CountFailureOnce(n) == 1

\* retry_count += 1
CountFailure(n) == n + 1

\* a test that never finds the last attempt
MaxReachedNever(n) == FALSE

\* retry_count == MAX_RETRIES
MaxReached(n) == n = MAX_RETRIES

\* lines 78-81
BeginRetry ==
    /\ rpc = "begin"
    /\ IF model_instance = "None"
       THEN /\ outcome' = Outcome("raise", "ValueError", "", 0)
            /\ rpc' = "raised"
       ELSE /\ rpc' = "while"
            /\ UNCHANGED outcome
    /\ retry_count' = 0
    /\ UNCHANGED <<model_instance, attempts, sleeps>>
    /\ UNCHANGED <<entry_point, text_gen_model, args, epc, result>>
    /\ UNCHANGED <<app, normalizer, process, data_df, schema, pc, i, validation_report, locals, todo, raised>>

\* line 82, and line 109 when the loop is left
WhileTest ==
    /\ rpc = "while"
    /\ IF retry_count < MAX_RETRIES
       THEN /\ rpc' = "try"
            /\ UNCHANGED outcome
       ELSE /\ outcome' = Outcome("raise", "Exception: API call failed after multiple retries", "", 0)
            /\ rpc' = "raised"
    /\ UNCHANGED <<model_instance, retry_count, attempts, sleeps>>
    /\ UNCHANGED <<entry_point, text_gen_model, args, epc, result>>
    /\ UNCHANGED <<app, normalizer, process, data_df, schema, pc, i, validation_report, locals, todo, raised>>

\* lines 84-86: generate_content returns and response.text is read
AttemptReturns ==
    /\ rpc = "try"
    /\ \E text \in Texts :
        /\ attempts' = Append(attempts, Attempt("none", text))
        /\ outcome' = Outcome("return", "none", text, Len(attempts) + 1)
    /\ rpc' = "returned"
    /\ UNCHANGED <<model_instance, retry_count, sleeps>>
    /\ UNCHANGED <<entry_point, text_gen_model, args, epc, result>>
    /\ UNCHANGED <<app, normalizer, process, data_df, schema, pc, i, validation_report, locals, todo, raised>>

\* the body of the two retrying handlers: count, raise at the last
\* attempt, sleep otherwise
Backoff(type) ==
    /\ attempts' = Append(attempts, Attempt(type, ""))
    /\ retry_count' = CountFailure(retry_count)
    /\ IF MaxReached(retry_count')
       THEN /\ outcome' = Outcome("raise", type, "", Len(attempts) + 1)
            /\ rpc' = "raised"
            /\ UNCHANGED sleeps
       ELSE /\ \E jitter \in Jitters :
                sleeps' = Append(sleeps, [after |-> Len(attempts) + 1,
                                          wait_time |-> WaitTime(retry_count', jitter)])
            /\ rpc' = "while"
            /\ UNCHANGED outcome
    /\ UNCHANGED model_instance
    /\ UNCHANGED <<entry_point, text_gen_model, args, epc, result>>
    /\ UNCHANGED <<app, normalizer, process, data_df, schema, pc, i, validation_report, locals, todo, raised>>

\* lines 85, 88-96: generate_content raises ResourceExhausted
AttemptResourceExhausted ==
    /\ rpc = "try"
    /\ \E type \in ExceptionTypes :
        /\ Handler(type) = "quota"
        /\ Backoff(type)

\* lines 85, 97-104: generate_content raises another Google API error
AttemptAPIError ==
    /\ rpc = "try"
    /\ \E type \in ExceptionTypes :
        /\ Handler(type) = "api"
        /\ Backoff(type)

\* lines 85-86, 105-107: generate_content, or the reading of response.text,
\* raises an exception that is no Google API error
AttemptUnexpected ==
    /\ rpc = "try"
    /\ \E type \in ExceptionTypes :
        /\ Handler(type) = "unexpected"
        /\ attempts' = Append(attempts, Attempt(type, ""))
        /\ outcome' = Outcome("raise", type, "", Len(attempts) + 1)
    /\ rpc' = "raised"
    /\ UNCHANGED <<model_instance, retry_count, sleeps>>
    /\ UNCHANGED <<entry_point, text_gen_model, args, epc, result>>
    /\ UNCHANGED <<app, normalizer, process, data_df, schema, pc, i, validation_report, locals, todo, raised>>

NextRetry ==
    \/ BeginRetry
    \/ WhileTest
    \/ AttemptReturns
    \/ AttemptResourceExhausted
    \/ AttemptAPIError
    \/ AttemptUnexpected

\* no call of the data checker is under way
NoValidation ==
    /\ obj = JNull
    /\ results = <<>>
    /\ hash_order = <<"a", "c", "7", "[]">>
    /\ earlier = <<>>
    /\ data_df = [cols |-> {}, rows |-> <<>>]
    /\ schema = [kind |-> "none", required |-> <<>>, has_props |-> FALSE, props |-> EmptyMap]
    /\ pc = "start"
    /\ i = 0
    /\ validation_report = InitReport
    /\ required_fields_in_schema = {}
    /\ present_required_fields = {}
    /\ enum_values_in_schema = EmptyMap
    /\ enum_values_in_data = EmptyMap
    /\ min_max_constraints = EmptyMap
    /\ min_max_data_values = EmptyMap
    /\ missing_required_fields = <<>>
    /\ todo = <<>>
    /\ raised = "none"

\* the helper called on its own, with a model or with None
InitRetry ==
    /\ model_instance \in {"None", "model"}
    /\ retry_count = 0
    /\ rpc = "begin"
    /\ attempts = <<>>
    /\ sleeps = <<>>
    /\ outcome = Outcome("none", "none", "", 0)
    /\ entry_point = "none"
    /\ text_gen_model = "None"
    /\ args = [schema |-> "None", validation_report |-> "None"]
    /\ epc = "idle"
    /\ result = [kind |-> "none", items |-> <<>>, error |-> "None"]
    /\ NoValidation
    /\ NoApp

SpecRetry == InitRetry /\ [][NextRetry]_vars

\* ------------------------------------------------------- the AI entry points

\* suggest_test_case_improvements and suggest_schema_improvements of
\* ai_suggester.py, generate_synthetic_test_cases of test_case_generator.py
EntryPoints == {"suggest_test_case_improvements", "suggest_schema_improvements",
                "generate_synthetic_test_cases"}

\* the entry points that take a validation report
TakesReport(f) == f \in {"suggest_test_case_improvements", "suggest_schema_improvements"}

\* the schema argument: None, an empty dict, a dict json.dumps can write, a
\* dict it cannot (a YAML schema with a date in it)
SchemaArgs == {"None", "{}", "schema", "unserializable"}

\* the validation_report argument
ReportArgs == {"None", "{}", "report"}

\* not x, for an argument
Falsy(x) == x \in {"None", "{}"}

\* what an entry point hands back: kind is "return" or "raise"; items is the
\* list under "suggestions" or "test_cases", error the value under "error"
Result(items, error) == [kind |-> "return", items |-> items, error |-> error]

\* an exception leaves the entry point
Propagates(type) == [kind |-> "raise", items |-> <<>>, error |-> type]

\* lines 54-60 of _parse_gemini_json_response; <fence> stands for the three
\* backquotes of a markdown code block
StripFences(text) ==
    CASE text = "<fence>json [{}] <fence>" -> "[{}]"
      [] OTHER -> text

\* json.loads (line 63) on the texts of the palette, and the ValueError of
\* lines 64-69
JsonLoads(text) ==
    CASE text = "[{}]" -> [type |-> "list", items |-> <<"{}">>]
      [] text = "[]" -> [type |-> "list", items |-> <<>>]
      [] text = "{}" -> [type |-> "dict", items |-> <<>>]
      [] OTHER -> [type |-> "ValueError", items |-> <<>>]

ParseGeminiJsonResponse(text) == JsonLoads(StripFences(text))

\* a shape check that lets everything through
IsListAny(parsed) == TRUE

\* isinstance(parsed_response, list)
IsList(parsed) == parsed.type = "list"

\* a guard that takes an empty schema for a schema
MissingInputNoneOnly(f, a) == a.schema = "None"

\* lines 134, 212 of ai_suggester.py, line 161 of test_case_generator.py
MissingInput(f, a) ==
    IF TakesReport(f) THEN Falsy(a.schema) \/ Falsy(a.validation_report)
    ELSE Falsy(a.schema)

\* lines 132-135: the two guards of an entry point
EntryGuards ==
    /\ epc = "called"
    /\ IF text_gen_model = "None"
       THEN /\ result' = Result(<<>>, "AI model not initialized. Check API key.")
            /\ epc' = "returned"
       ELSE IF MissingInput(entry_point, args)
       THEN /\ result' = Result(<<>>, "Schema or validation report missing")
            /\ epc' = "returned"
       ELSE /\ epc' = "prompt"
            /\ UNCHANGED result
    /\ UNCHANGED <<retry, entry_point, text_gen_model, args>>
    /\ UNCHANGED <<app, normalizer, process, data_df, schema, pc, i, validation_report, locals, todo, raised>>

\* lines 138-180: the prompt is built, outside the try, and the helper is
\* called with the module's model
BuildPrompt ==
    /\ epc = "prompt"
    /\ IF args.schema = "unserializable"
       THEN /\ result' = Propagates("TypeError")
            /\ epc' = "raised"
            /\ UNCHANGED retry
       ELSE /\ epc' = "calling"
            /\ model_instance' = text_gen_model
            /\ rpc' = "begin"
            /\ UNCHANGED <<result, retry_count, attempts, sleeps, outcome>>
    /\ UNCHANGED <<entry_point, text_gen_model, args>>
    /\ UNCHANGED <<app, normalizer, process, data_df, schema, pc, i, validation_report, locals, todo, raised>>

\* lines 180-189: the helper is back; its text is parsed and checked, and
\* every exception of the try becomes an error value
AfterCall ==
    /\ epc = "calling"
    /\ rpc \in {"returned", "raised"}
    /\ LET parsed == ParseGeminiJsonResponse(outcome.text)
       IN  result' =
             IF outcome.kind = "raise" THEN Result(<<>>, "Failed: API call")
             ELSE IF parsed.type = "ValueError" THEN Result(<<>>, "Failed: parsing")
             ELSE IF ~IsList(parsed) THEN Result(<<>>, "Failed: unexpected JSON structure")
             ELSE Result(parsed.items, "None")
    /\ epc' = "returned"
    /\ UNCHANGED <<retry, entry_point, text_gen_model, args>>
    /\ UNCHANGED <<app, normalizer, process, data_df, schema, pc, i, validation_report, locals, todo, raised>>

NextEntry ==
    \/ EntryGuards
    \/ BuildPrompt
    \/ AfterCall
    \/ NextRetry

\* an entry point is called, with or without a model, on any arguments
InitEntry ==
    /\ entry_point \in EntryPoints
    /\ text_gen_model \in {"None", "model"}
    /\ args \in {a \in [schema : SchemaArgs, validation_report : ReportArgs] :
                    ~TakesReport(entry_point) => a.validation_report = "None"}
    /\ epc = "called"
    /\ result = [kind |-> "none", items |-> <<>>, error |-> "None"]
    /\ model_instance = "None"
    /\ retry_count = 0
    /\ rpc = "idle"
    /\ attempts = <<>>
    /\ sleeps = <<>>
    /\ outcome = Outcome("none", "none", "", 0)
    /\ NoValidation
    /\ NoApp

SpecEntry == InitEntry /\ [][NextEntry]_vars

\* time.sleep returns and generate_content returns or raises: a call of the
\* helper that can take a step takes one
SpecRetryLive == InitRetry /\ [][NextRetry]_vars /\ WF_vars(NextRetry)

\* ------------------------------------------------------------ claims, C23-C27

\* the helper is over
Ended == rpc \in {"returned", "raised"}

\* the calls of generate_content that raised
FailedAttempts == {k \in DOMAIN attempts : attempts[k].type # "none"}

\* at most MAX_RETRIES calls; a return hands out the text of the last call,
\* which is the only one that did not raise; every call before a new attempt
\* raised, and a new attempt is made after fewer than MAX_RETRIES calls
AtMostMaxRetriesCalls ==
    /\ Len(attempts) <= MAX_RETRIES
    /\ outcome.kind = "return" =>
        /\ rpc = "returned"
        /\ outcome.attempt = Len(attempts)
        /\ attempts[Len(attempts)] = Attempt("none", outcome.text)
        /\ FailedAttempts = 1 .. Len(attempts) - 1
    /\ rpc \in {"while", "try"} => FailedAttempts = DOMAIN attempts
    /\ rpc = "try" => Len(attempts) < MAX_RETRIES
    /\ rpc = "raised" => outcome.kind = "raise" /\ FailedAttempts = DOMAIN attempts
    /\ Ended => outcome.kind # "none"

\* C23: _call_gemini_with_retry always ends, after at most MAX_RETRIES = 5
\* calls of generate_content: it returns the text of the first call that
\* succeeds and calls no more, and when no call succeeds it raises after
\* the 5th call at the latest.
C23_TerminatesWithinMaxRetries == []AtMostMaxRetriesCalls /\ <>Ended

\* a success at the last attempt, after four failures
C23_ReturnsAtFifthCall ==
    /\ outcome.kind = "return"
    /\ Len(attempts) = MAX_RETRIES
    /\ outcome.text = "[{}]"

\* the errors the claims call retryable
RetryableErrors == {"ResourceExhausted", "InternalServerError", "GoogleAPIError"}

\* every attempt made so far failed with a retryable error
AllRetryable == \A k \in DOMAIN attempts : attempts[k].type \in RetryableErrors

\* the exception of line 109
TrailingException == "Exception: API call failed after multiple retries"

\* C24: when all 5 attempts fail with retryable API errors, in any mix, the
\* exception raised to the caller is the API error of the 5th attempt; the
\* trailing generic exception of line 109 is never raised when the model
\* is initialized.
C24_FifthErrorRaised ==
    /\ (Len(attempts) = MAX_RETRIES /\ AllRetryable) =>
        /\ rpc = "raised"
        /\ outcome = Outcome("raise", attempts[MAX_RETRIES].type, "", MAX_RETRIES)
    /\ model_instance # "None" => outcome.type # TrailingException

\* five failures of three kinds, the last one an InternalServerError
C24_MixedFailures ==
    /\ Len(attempts) = MAX_RETRIES
    /\ AllRetryable
    /\ attempts[1].type = "ResourceExhausted"
    /\ attempts[2].type = "GoogleAPIError"
    /\ attempts[4].type = "ResourceExhausted"
    /\ attempts[MAX_RETRIES].type = "InternalServerError"
    /\ outcome.kind = "raise"

\* the attempts that raised an exception that is no Google API error
UnexpectedAttempts ==
    {k \in DOMAIN attempts : attempts[k].type \notin RetryableErrors \cup {"none"}}

\* C25: an exception that is no Google API error is never retried: at
\* whichever attempt it occurs it is re-raised at once, with no further call
\* of generate_content and no sleep; with an uninitialized model the helper
\* raises ValueError before any attempt.
C25_UnexpectedNotRetried ==
    /\ \A k \in UnexpectedAttempts :
        /\ k = Len(attempts)
        /\ rpc = "raised"
        /\ outcome = Outcome("raise", attempts[k].type, "", k)
        /\ \A n \in DOMAIN sleeps : sleeps[n].after < k
        /\ Len(sleeps) = k - 1
    /\ (model_instance = "None" /\ rpc # "begin") =>
        /\ rpc = "raised"
        /\ outcome = Outcome("raise", "ValueError", "", 0)
        /\ attempts = <<>>
        /\ sleeps = <<>>

\* an unexpected exception at the third attempt, after two retried failures
C25_UnexpectedAtThirdAttempt ==
    /\ Len(attempts) = 3
    /\ attempts[3].type = "Exception"
    /\ attempts[1].type = "ResourceExhausted"
    /\ Len(sleeps) = 2
    /\ rpc = "raised"

\* the base delays of the backoff schedule, in seconds
StatedBaseDelays == <<2, 4, 8, 16>>

\* C26: exactly one sleep separates failed attempt k from attempt k+1, for
\* k = 1..4; its delay is the base delay 2, 4, 8, 16 seconds plus a jitter in
\* [0, 0.5], so that delays strictly increase; no sleep follows the 5th
\* failed attempt or a successful attempt.
C26_BackoffSchedule ==
    /\ Len(sleeps) <= Len(StatedBaseDelays)
    /\ \A k \in DOMAIN sleeps :
        /\ sleeps[k].after = k
        /\ k < MAX_RETRIES
        /\ attempts[k].type \in RetryableErrors
        /\ sleeps[k].wait_time >= StatedBaseDelays[k] * TenthsPerSecond
        /\ sleeps[k].wait_time <= StatedBaseDelays[k] * TenthsPerSecond + RETRY_JITTER_MAX
        /\ k > 1 => sleeps[k].wait_time > sleeps[k - 1].wait_time
    /\ \A k \in DOMAIN attempts :
        k < Len(attempts) => k \in DOMAIN sleeps
    /\ (Ended /\ attempts # <<>>) => Len(sleeps) = Len(attempts) - 1
    /\ rpc = "try" => Len(sleeps) = Len(attempts)

\* four sleeps, the shortest and the longest jitter among them, and then a
\* fifth failure
C26_FourSleeps ==
    /\ Len(attempts) = MAX_RETRIES
    /\ Len(sleeps) = 4
    /\ sleeps[1].wait_time = 20
    /\ sleeps[2].wait_time = 45
    /\ sleeps[3].wait_time = 80
    /\ sleeps[4].wait_time = 165
    /\ outcome.type = "GoogleAPIError"

\* the entry point went past its guards without a model or an input
GuardFails == text_gen_model = "None" \/ Falsy(args.schema)
                \/ (TakesReport(entry_point) /\ Falsy(args.validation_report))

\* the helper raised, or returned a text that is no JSON array
CallFails ==
    \/ outcome.kind = "raise"
    \/ outcome.kind = "return" /\ outcome.text \in {"{}", "Sorry"}

\* C27: the AI entry points report failure as a value: without a model or
\* without a required input they return an empty list and a non-null error,
\* and call no API; when the API call, the JSON parsing or the list check
\* fails they return an empty list and a non-null error; a non-empty list
\* comes only with error = None.
C27_FailureAsValue ==
    /\ (GuardFails /\ epc # "called") =>
        /\ epc = "returned"
        /\ result.kind = "return" /\ result.items = <<>> /\ result.error # "None"
        /\ attempts = <<>> /\ rpc = "idle"
    /\ (epc \in {"returned", "raised"} /\ CallFails) =>
        result.kind = "return" /\ result.items = <<>> /\ result.error # "None"
    /\ result.items # <<>> => result.kind = "return" /\ result.error = "None"

\* an entry point whose helper gave up after five quota errors
C27_QuotaExhausted ==
    /\ entry_point = "generate_synthetic_test_cases"
    /\ epc = "returned"
    /\ Len(attempts) = MAX_RETRIES
    /\ outcome.type = "ResourceExhausted"
    /\ result.items = <<>>
    /\ result.error # "None"

\* ------------------------------------------------------- the app session

\* the files a user can put into the contract uploader: two schemas and a
\* file load_schema_from_uploaded_file cannot read
ContractFiles == {"contract1.json", "contract2.yaml", "broken.json"}

\* load_schema_from_uploaded_file: the schema of the file, {} when it fails
LoadSchema(file) ==
    CASE file = "contract1.json" -> "schema1"
      [] file = "contract2.yaml" -> "schema2"
      [] OTHER -> "{}"

\* the files a user can put into the data uploader
DataFiles == {"data1.csv", "data2.json", "broken.csv"}

\* load_data_from_uploaded_file: the rows of the file, an empty DataFrame
\* when it fails
LoadData(file) ==
    CASE file = "data1.csv" -> "data1"
      [] file = "data2.json" -> "data2"
      [] OTHER -> "empty"

\* what validate_data_against_schema returns: a report of these two inputs
Report(contract_schema, synthetic_data_df) ==
    [of |-> "validate_data_against_schema",
     contract_schema |-> contract_schema, synthetic_data_df |-> synthetic_data_df]

\* the lists an AI suggestion call leaves in the session: none (disabled, or
\* an error), or one suggestion
Suggestions == {<<>>, <<"suggestion">>}

\* lines 350-377 and 413-416 of app.py: the buttons of Section 3
GenerateButtonShown(ss) ==
    ss.enable_ai_test_case_generation /\ ss.contract_schema # "{}"

\* line 365, inside the branch of line 351
ReverseButtonShown(ss) ==
    /\ ss.enable_ai_test_case_generation
    /\ ss.contract_schema # "{}"
    /\ ss.contract_schema = "{}" /\ ss.synthetic_data_df # "empty"

\* lines 426-437 of app.py: the call of generate_markdown_report, and the
\* validation_report it is given
MarkdownReportCall(ss) ==
    IF /\ ss.validation_report # NoReport \/ ss.ai_generated_test_cases_df # "empty"
       /\ \/ ss.validation_report # NoReport
          \/ ss.ai_suggestions_test_cases # <<>>
          \/ ss.ai_suggestions_schema # <<>>
          \/ ss.ai_patched_schema # "{}"
    THEN IF ss.validation_report = NoReport THEN "called with None" ELSE "called with a report"
    ELSE "not called"

\* one run of the script from Section 3 on: generate_markdown_report raises
\* on None (export_utils.py line 40), which ends the run before the reset
\* button of lines 488-489
RenderScript(ss) ==
    [generate_test_cases_button |-> GenerateButtonShown(ss),
     reverse_engineer_schema_button |-> ReverseButtonShown(ss),
     generate_markdown_report |-> MarkdownReportCall(ss),
     reset_app_button |-> MarkdownReportCall(ss) # "called with None"]

\* a run of the script that an exception ended in Section 2
AbortedInSection2 ==
    [generate_test_cases_button |-> FALSE,
     reverse_engineer_schema_button |-> FALSE,
     generate_markdown_report |-> "not called",
     reset_app_button |-> FALSE]

\* an upload that leaves the report as it is
ReportKeptAfterUpload(report) == report

\* lines 149, 170: st.session_state['validation_report'] = None
ReportAfterUpload(report) == NoReport

\* lines 143-150: a new file in the contract uploader
UploadContract ==
    /\ \E contract_file \in ContractFiles :
        /\ contract_file # session_state.contract_file
        /\ session_state' = [session_state EXCEPT
                !.contract_file = contract_file,
                !.contract_schema = LoadSchema(contract_file),
                !.validation_report = ReportAfterUpload(@)]
    /\ rendered' = RenderScript(session_state')
    /\ UNCHANGED <<gemini, normalizer, process, data_df, schema, pc, i, validation_report, locals, todo, raised>>

\* lines 166-171: a new file in the data uploader
UploadData ==
    /\ \E synthetic_data_file \in DataFiles :
        /\ synthetic_data_file # session_state.synthetic_data_file
        /\ session_state' = [session_state EXCEPT
                !.synthetic_data_file = synthetic_data_file,
                !.synthetic_data_df = LoadData(synthetic_data_file),
                !.validation_report = ReportAfterUpload(@)]
    /\ rendered' = RenderScript(session_state')
    /\ UNCHANGED <<gemini, normalizer, process, data_df, schema, pc, i, validation_report, locals, todo, raised>>

\* a run that asks for no API key
ValidationAllowedWithoutKey(ss) ==
    ss.contract_schema # "{}" /\ ss.synthetic_data_df # "empty"

\* lines 192-197: what the run button asks for
ValidationAllowed(ss) ==
    /\ ss.contract_schema # "{}"
    /\ ss.synthetic_data_df # "empty"
    /\ ss.gemini_api_key_loaded

\* lines 190-245: the run button; the validation returns a report or raises
RunValidation ==
    /\ IF ~ValidationAllowed(session_state)
       THEN /\ UNCHANGED session_state
            /\ rendered' = RenderScript(session_state)
       ELSE \/ /\ session_state' = [session_state EXCEPT
                        !.ai_suggestions_test_cases = <<>>,
                        !.ai_suggestions_schema = <<>>,
                        !.ai_patched_schema = "{}"]
               /\ rendered' = AbortedInSection2
            \/ /\ \E test_cases \in Suggestions, improvements \in Suggestions :
                    session_state' = [session_state EXCEPT
                        !.ai_suggestions_test_cases = test_cases,
                        !.ai_suggestions_schema = improvements,
                        !.ai_patched_schema = "{}",
                        !.validation_report = Report(session_state.contract_schema,
                                                     session_state.synthetic_data_df)]
               /\ rendered' = RenderScript(session_state')
    /\ UNCHANGED <<gemini, normalizer, process, data_df, schema, pc, i, validation_report, locals, todo, raised>>

\* lines 380-405: the handler of the generate button
GenerateTestCases(ss) ==
    IF ~ss.gemini_api_key_loaded \/ ss.contract_schema = "{}"
    THEN {ss}
    ELSE {[ss EXCEPT !.ai_test_case_generation_error = "None",
                     !.ai_generated_test_cases_df = df] : df \in {"empty", "cases"}}
         \cup {[ss EXCEPT !.ai_test_case_generation_error = "Failed to generate test cases"]}

\* lines 366-375: the handler of the reverse-engineer button
ReverseEngineerSchema(ss) ==
    {ss} \cup {[ss EXCEPT !.ai_patched_schema = "schema of the data"]}

\* lines 362-405: a button of Section 3 that the last run showed is clicked
Section3Click ==
    /\ \E button \in {"generate_test_cases_button", "reverse_engineer_schema_button"} :
        /\ rendered[button]
        /\ session_state' \in
             IF button = "generate_test_cases_button"
             THEN GenerateTestCases(session_state)
             ELSE ReverseEngineerSchema(session_state)
    /\ rendered' = RenderScript(session_state')
    /\ UNCHANGED <<gemini, normalizer, process, data_df, schema, pc, i, validation_report, locals, todo, raised>>

\* lines 83-94: a key typed into the sidebar; the models are configured or
\* the configuration fails
EnterApiKey ==
    /\ ~session_state.gemini_api_key_loaded
    /\ \E configured \in BOOLEAN :
        session_state' = [session_state EXCEPT !.gemini_api_key_loaded = configured]
    /\ rendered' = RenderScript(session_state')
    /\ UNCHANGED <<gemini, normalizer, process, data_df, schema, pc, i, validation_report, locals, todo, raised>>

\* line 110: the checkbox of AI test data generation
ToggleTestDataGeneration ==
    /\ session_state' = [session_state EXCEPT !.enable_ai_test_case_generation = ~@]
    /\ rendered' = RenderScript(session_state')
    /\ UNCHANGED <<gemini, normalizer, process, data_df, schema, pc, i, validation_report, locals, todo, raised>>

\* lines 489-491, then lines 43-57 of the run that follows: the key of the
\* environment is found again, the checkboxes are back at their default
ResetApplication ==
    /\ rendered.reset_app_button
    /\ session_state' = NewSession(session_state.gemini_api_key_loaded)
    /\ rendered' = RenderScript(session_state')
    /\ UNCHANGED <<gemini, normalizer, process, data_df, schema, pc, i, validation_report, locals, todo, raised>>

NextApp ==
    \/ UploadContract
    \/ UploadData
    \/ RunValidation
    \/ Section3Click
    \/ EnterApiKey
    \/ ToggleTestDataGeneration
    \/ ResetApplication

\* the first run of the script, with or without a key in the environment
InitApp ==
    /\ \E key_loaded \in BOOLEAN : session_state = NewSession(key_loaded)
    /\ rendered = RenderScript(session_state)
    /\ NoAICall
    /\ obj = JNull
    /\ results = <<>>
    /\ hash_order = <<"a", "c", "7", "[]">>
    /\ earlier = <<>>
    /\ data_df = [cols |-> {}, rows |-> <<>>]
    /\ schema = [kind |-> "none", required |-> <<>>, has_props |-> FALSE, props |-> EmptyMap]
    /\ pc = "start"
    /\ i = 0
    /\ validation_report = InitReport
    /\ required_fields_in_schema = {}
    /\ present_required_fields = {}
    /\ enum_values_in_schema = EmptyMap
    /\ enum_values_in_data = EmptyMap
    /\ min_max_constraints = EmptyMap
    /\ min_max_data_values = EmptyMap
    /\ missing_required_fields = <<>>
    /\ todo = <<>>
    /\ raised = "none"

SpecApp == InitApp /\ [][NextApp]_vars

\* ------------------------------------------------------------ claims, C28-C30

\* a report in the session is the report of the schema and the dataset in
\* the session, and neither is empty
ReportOfCurrentInputs ==
    session_state.validation_report # NoReport =>
        /\ session_state.validation_report.of = "validate_data_against_schema"
        /\ session_state.validation_report.contract_schema = session_state.contract_schema
        /\ session_state.validation_report.synthetic_data_df = session_state.synthetic_data_df
        /\ session_state.contract_schema # "{}"
        /\ session_state.synthetic_data_df # "empty"

\* a step that puts a new file into the session leaves no report, and a step
\* that puts a report into the session starts with a schema, a dataset and
\* a loaded key, and changes neither file
ReportSetOnlyByValidation ==
    /\ (\/ session_state'.contract_file # session_state.contract_file
        \/ session_state'.synthetic_data_file # session_state.synthetic_data_file)
            => session_state'.validation_report = NoReport
    /\ (/\ session_state'.validation_report # NoReport
        /\ session_state'.validation_report # session_state.validation_report)
            => /\ session_state.contract_schema # "{}"
               /\ session_state.synthetic_data_df # "empty"
               /\ session_state.gemini_api_key_loaded
               /\ session_state'.contract_schema = session_state.contract_schema
               /\ session_state'.synthetic_data_df = session_state.synthetic_data_df

C29_MarkdownReportHasReport ==
    rendered.generate_markdown_report # "called with None"

\* suggestions and generated cases of an earlier validation are in the
\* session, a later upload took the report away, and the export section
\* builds the Markdown report
C29_ExportAfterUpload ==
    /\ session_state.validation_report = NoReport
    /\ session_state.ai_suggestions_test_cases # <<>>
    /\ session_state.ai_generated_test_cases_df = "cases"
    /\ session_state.synthetic_data_file = "data2.json"
    /\ rendered.generate_markdown_report = "called with None"

\* AI test data generation is enabled, data is uploaded and no contract is
\* loaded
DataWithoutSchema ==
    /\ session_state.enable_ai_test_case_generation
    /\ session_state.synthetic_data_df # "empty"
    /\ session_state.contract_schema = "{}"

\* C30: the reverse-engineer-schema button is offered when AI test data
\* generation is enabled, data has been uploaded and no schema contract is
\* loaded.
C30_ReverseEngineerOffered ==
    DataWithoutSchema => rendered.reverse_engineer_schema_button

\* the button is in no run of the script, and nothing sets ai_patched_schema
C30_NeverOffered ==
    /\ ~rendered.reverse_engineer_schema_button
    /\ session_state.ai_patched_schema = "{}"

\* data without a schema, and Section 3 without the button
C30_DataUploadedNoButton ==
    /\ DataWithoutSchema
    /\ session_state.synthetic_data_file = "data1.csv"
    /\ session_state.gemini_api_key_loaded
    /\ ~rendered.reverse_engineer_schema_button
    /\ ~rendered.generate_test_cases_button

====
